---- MODULE Spec2Model ----
(***************************************************************************)
(* Dosing control loop of the hydroponic controllers.                      *)
(*                                                                         *)
(* Two deployments exist and share no state: Dist_1 (Modbus EC/pH sensor   *)
(* on /tmp/rs485_bus.lock, pumps on local GPIO) and Dist_2 (framed-ASCII   *)
(* sensor on /tmp/usb_1a86_serial.lock, pumps commanded through the host). *)
(* The variable dist says which deployment a behaviour is about; it is     *)
(* drawn in Init and never changes.  Each deployment is the dosing         *)
(* controller process plus the poller processes that take the same lock    *)
(* file.                                                                   *)
(*                                                                         *)
(* BusSpec adds the stand-alone reader sensors/EC_pH.py to the Dist_1 bus. *)
(* FilterSpec is the acquisition filter alone: the Dist_2 poller's Hampel  *)
(* and confirmation pipeline and the Dist_2 controller's sampling loop.    *)
(* LongSpec runs that filter until its histories are full; SampleSpec is   *)
(* the controller's three-read acquisition up to its result; RetrySpec is  *)
(* one call of a transport adapter; SlotSpec is slot_stamp on two          *)
(* instants; PumpSpec is one run_pump call timed in milliseconds;          *)
(* CrashSpec adds to Spec an exception that leaves the cycle.              *)
(* HampelSpec is hampel_accept on a history that grows; PollerMainSpec is  *)
(* the main loop of a poller (latest values, periodic saves);              *)
(* BoundarySpec is sleep_to_next_boundary; WindowSpec is a time-window     *)
(* pump controller.                                                        *)
(*                                                                         *)
(* Units: EC, pH and temperature are integers in hundredths (1.10 -> 110); *)
(* the poller's filter works in units of 0.005 (1.10 -> 220).              *)
(* The wall clock `now` counts hours; day = now \div 24.                   *)
(***************************************************************************)
EXTENDS Integers, Sequences, FiniteSets

\* ------------------------------------------------------------------ bounds
\* last wall-clock hour of the analysed window, which spans six hours
LastHour == 28
FirstHour == LastHour - 5
\* lines the host has written to the controller's stdin and that are not yet read
MaxQueue == 1
\* 50 ms polls of one pump wait (scaled from DOSE_ML / PUMP_ML_PER_SEC / 0.05)
DosePolls == 1
\* iterations of the Dist_1 averaging loop (scaled from DURATION_SEC / INTERVAL_SEC)
AvgReads == 2
\* longest Hampel history explored in the Dist_2 poller
MaxHist == 7
\* longest history explored in a long run of the Dist_2 poller
MaxLong == 47

\* ------------------------------------------------------- program constants
D1_EC_MIN == 70
D1_PH_MAX == 650
D1_CHECK_INTERVAL_HOUR == 4
D2_EC_MIN == 110
D2_PH_MAX == 610
D2_READ_N == 3
D2_VALID_EC_MIN == 0
D2_VALID_EC_MAX == 300
D2_VALID_PH_MIN == 350
D2_VALID_PH_MAX == 1000
D2_VALID_TP_MIN == 1000
D2_VALID_TP_MAX == 5000
RETRY_ATTEMPTS == 3
\* DOSE_ML in ml, PUMP_ML_PER_SEC in hundredths of a ml per second
D1_DOSE_ML == 10
D2_DOSE_ML == 50
PUMP_ML_PER_SEC == 165
\* the pollers' timing constants: seconds, minutes
PRINT_EVERY_SEC == 10
SAVE_EVERY_MIN == 20
JSON_EVERY_MIN == 3
CSV_EVERY_MIN == 20

\* Python's None, for a sensor value and for a slot key
NoVal == -1
NoSlot == <<>>
\* no sensor request has returned yet
NoFrame == <<>>

Pumps == {"AB", "Acid"}
Pollers == {"sensor", "room"}
Lines == {"true", "false"}

\* values one transport exchange can deliver (hundredths)
D1_RawEC == {68, 72}
D1_RawPH == {660, 680}
D1_RawTP == {2500}
D2_RawEC == {NoVal, 108, 112, 350}
D2_RawPH == {NoVal, 0, 600, 620}
D2_RawTP == {NoVal, 2500}

VARIABLES
  dist,        \* 1 or 2: the deployment
  GPIO_OK,     \* Dist_1: RPi.GPIO imported and set up
  pc,          \* the controller's position
  stdin,       \* lines written by the host and not yet read
  now,         \* wall clock, hours
  last_slot,   \* last_slot / last_run_slot
  cur_slot,    \* slot / cur_slot of the running cycle
  lock,        \* holder of the deployment's lock file, or "none"
  pump,        \* last command issued for each pump: "ON", "OFF", or "NONE"
  ec_list, ph_list, tp_list,   \* samples of the running acquisition
  i,           \* number of sub-reads done in the running acquisition
  rep,         \* representative <<ec, ph, temp>> of the running cycle
  waitLeft,    \* polls left in the running pump wait
  ppc,         \* each poller's position
  res,         \* outcome of the last cycle, "NONE" while one is running
  runs,        \* number of cycles started, per slot key
  rows,        \* sensor rows appended in the current cycle
  doses,       \* dose records written or emitted in the current cycle
  turned_on,   \* pumps commanded ON in the current cycle
  stopSeen,    \* where the controller read the STOP line it acted on
  aborted,     \* the pump whose wait was interrupted by STOP
  row_err,     \* the sensor-row write of the current cycle raised
  dose_err,    \* the pump whose dose-record write raised in the current cycle
  err_line,    \* the cycle's exception handler printed an {"error": ...} line
  epc,         \* position of the sensors/EC_pH.py script (Dist_1 port, no lock)
  frame,       \* <<ec, ph, tp, err>> returned by the last sensor request
  streak,      \* consecutive requests that returned this same frame
  hist_ec, hist_ph, hist_tp,   \* Dist_2 poller: Hampel histories
  rep_ec, rep_ph, rep_tp,      \* Dist_2 poller: representatives
  pend_ec, pend_ph, pend_tp,   \* Dist_2 poller: pending candidates
  rq_who,      \* the transport-adapter function of the running call
  rq_pc,       \* the call's position: "idle", "trying", "ok" or "err"
  tries,       \* outcomes of the attempts the call has made
  delays,      \* RETRY_DELAY_SEC sleeps the call has made
  sl_mode,     \* SCHEDULE_MODE
  sl_a, sl_b,  \* two instants, <<day, minute of the day>>
  key_a, key_b,  \* their slot keys
  w_pc,        \* a run_pump call on its own: "idle", "waiting", "off",
               \* "stopped" or "raised"
  w_dev,       \* the pump of that call
  elapsed,  \* time.monotonic() - t0 at the call's last look, in ms
  hp_hist,  \* hampel_accept on its own: the history argument
  hp_x,  \* the candidate argument
  hp_out,  \* the result: "none" before the call, "accept" or "reject"
  pm_kind,  \* a sensor poller on its own: "none", "Dist_1", "room" or "Dist_2"
  pm_t,  \* wall clock at the running turn of its loop, in units of 10 s
  pm_read,  \* <<v1, v2, v3, err>> returned by the turn's read
  latest,  \* latest_* (Dist_1, room) or rep_* (Dist_2)
  latest_err,  \* latest_err / last_err
  last_saved_slot,  \* last_saved_slot / last_csv_minute
  last_json_minute,  \* Dist_2: minute of the last report
  saved,  \* records written, <<key, values>>
  pm_out,  \* the last report printed, <<date, values, error>>
  sb_pc,  \* sleep_to_next_boundary on its own: "idle", "awake" or "asleep"
  sb_step,  \* its argument step_sec
  sb_now,  \* time.time() at the last call or wake-up, in quarter seconds
  sb_next,  \* next_t of the last call, in seconds
  tw_kind,  \* the time-window pump controller that runs
  tw_pc,  \* its position: idle, start, loop, done
  tw_in,  \* lines on its stdin that are not yet read
  first_input,  \* what its read at start-up returned
  tw_t,  \* its wall clock, in units of 5 s
  tw_now,  \* the now of its last loop iteration
  tw_pump,  \* the last command to its pump pin(s)
  last_on_minute,  \* the minute key of the last On row
  tw_rows  \* the minute keys of the rows of its pump_activate_result.csv

vars == <<dist, GPIO_OK, pc, stdin, now, last_slot, cur_slot, lock, pump,
          ec_list, ph_list, tp_list, i, rep, waitLeft, ppc, res, runs, rows,
          doses, turned_on, stopSeen, aborted, row_err, epc, frame, streak,
          hist_ec, hist_ph, hist_tp, rep_ec, rep_ph, rep_tp,
          pend_ec, pend_ph, pend_tp, dose_err, err_line, rq_who, rq_pc,
          tries, delays, sl_mode, sl_a, sl_b, key_a, key_b, w_pc, w_dev,
          elapsed,
          hp_hist, hp_x, hp_out,
          pm_kind, pm_t, pm_read, latest, latest_err, last_saved_slot, last_json_minute, saved, pm_out,
          sb_pc, sb_step, sb_now, sb_next,
          tw_kind, tw_pc, tw_in, first_input, tw_t, tw_now, tw_pump,
          last_on_minute, tw_rows>>

\* the state of the Dist_2 poller's filter and of the last sensor request
filterVars == <<frame, streak, hist_ec, hist_ph, hist_tp, rep_ec, rep_ph,
                rep_tp, pend_ec, pend_ph, pend_tp>>

\* what no step of the dosing controller or of the locking pollers changes
retryVars == <<rq_who, rq_pc, tries, delays>>

slotVars == <<sl_mode, sl_a, sl_b, key_a, key_b>>

waitVars == <<w_pc, w_dev, elapsed>>

hampelVars == <<hp_hist, hp_x, hp_out>>

pollVars == <<pm_kind, pm_t, pm_read, latest, latest_err, last_saved_slot, last_json_minute, saved, pm_out>>

boundaryVars == <<sb_pc, sb_step, sb_now, sb_next>>

\* the state of a time-window pump controller
windowVars == <<tw_kind, tw_pc, tw_in, first_input, tw_t, tw_now, tw_pump,
                last_on_minute, tw_rows>>

auxVars == <<epc, filterVars, retryVars, slotVars, waitVars,
            hampelVars,
            pollVars,
            boundaryVars,
            windowVars>>

ctlVars == <<pc, stdin, last_slot, cur_slot, pump, ec_list, ph_list, tp_list,
             i, rep, waitLeft, res, runs, rows, doses, turned_on, stopSeen,
             aborted, row_err, dose_err, err_line>>

\* ------------------------------------------------------------ pure helpers
\* round(num/den) to the nearest integer, a tie to the even neighbour
Round(num, den) ==
  LET q == num \div den
      r == num % den
  IN  IF 2 * r < den THEN q
      ELSE IF 2 * r > den THEN q + 1
      ELSE IF q % 2 = 0 THEN q ELSE q + 1

RECURSIVE Sum(_)
Sum(s) == IF s = <<>> THEN 0 ELSE Head(s) + Sum(Tail(s))

RECURSIVE Insert(_, _)
Insert(x, s) ==
  IF s = <<>> THEN <<x>>
  ELSE IF x <= Head(s) THEN <<x>> \o s
  ELSE <<Head(s)>> \o Insert(x, Tail(s))

RECURSIVE sorted(_)
sorted(s) == IF s = <<>> THEN <<>> ELSE Insert(Head(s), sorted(Tail(s)))

\* median(values), rounded to hundredths by the caller's round(.., 2);
\* the value is returned as a fraction <<num, den>>
median(values) ==
  LET s == sorted(values)
      n == Len(s)
      mid == n \div 2
  IN  IF n % 2 = 1 THEN <<s[mid + 1], 1>> ELSE <<s[mid] + s[mid + 1], 2>>

\* variant: the lower edge of the band is excluded
valid_range_above(x, lo, hi) == x # NoVal /\ lo < x /\ x <= hi

valid_range(x, lo, hi) == x # NoVal /\ lo <= x /\ x <= hi

\* read_payload of each controller: the line read -> True / False / None
\* variant: a "false" line is not recognised
D1_read_payload_true_only(raw) == IF raw = "true" THEN "True" ELSE "None"

D1_read_payload(raw) ==
  IF raw = "true" THEN "True" ELSE IF raw = "false" THEN "False" ELSE "None"

D2_read_payload(raw) ==
  IF raw = "true" THEN "False" ELSE IF raw = "false" THEN "True" ELSE "None"

\* the value of one non-blocking read_payload() call and the lines it leaves
read_payload ==
  IF stdin = <<>> THEN "None"
  ELSE IF dist = 1 THEN D1_read_payload(Head(stdin)) ELSE D2_read_payload(Head(stdin))

stdin_rest == IF stdin = <<>> THEN <<>> ELSE Tail(stdin)

\* slot keys: the date is the day number, the hour the hour of the day
slot_stamp(dt) == <<dt \div 24, ((dt % 24) \div 4) * 4>>

D1_slot(dt) == <<dt \div 24, dt % 24>>

slot_of(dt) == IF dist = 1 THEN D1_slot(dt) ELSE slot_stamp(dt)

\* the main loop's condition for running a cycle at this tick
\* variant: a cycle in every hour whose slot is new
D1_due_any_hour(dt, last) == D1_slot(dt) # last

D1_due(dt, last) == (dt % 24) % D1_CHECK_INTERVAL_HOUR = 0 /\ D1_slot(dt) # last

\* variant: a cycle is also tied to the first hour of the slot
D2_due_boundary(dt, last) == (dt % 24) % 4 = 0 /\ slot_stamp(dt) # last

D2_due(dt, last) == slot_stamp(dt) # last

due(dt, last) == IF dist = 1 THEN D1_due(dt, last) ELSE D2_due(dt, last)

SlotKeys == {D1_slot(h) : h \in FirstHour..LastHour} \cup {slot_stamp(h) : h \in FirstHour..LastHour}

\* force_pumps_off / force_all_off applied to the pumps' last commands
D1_force_pumps_off(p) == IF GPIO_OK THEN [x \in Pumps |-> "OFF"] ELSE p

\* variant: force_all_off publishes nothing
D2_force_all_off_nothing(p) == p

D2_force_all_off(p) == [x \in Pumps |-> "OFF"]

force_off(p) == IF dist = 1 THEN D1_force_pumps_off(p) ELSE D2_force_all_off(p)

\* threshold rules of the cycle
D1_dose_AB(ec) == ec < D1_EC_MIN

\* variant: the Dist_1 comparison in Dist_2
D2_dose_AB_strict(ec) == ec < D2_EC_MIN

D2_dose_AB(ec) == ec <= D2_EC_MIN

dose_AB(ec) == IF dist = 1 THEN D1_dose_AB(ec) ELSE D2_dose_AB(ec)

D1_dose_Acid(ph) == ph >= D1_PH_MAX

D2_dose_Acid(ph) == ph # NoVal /\ ph >= D2_PH_MAX

\* variant: pH == PH_MAX does not dose
dose_Acid_strict(ph) ==
  IF dist = 1 THEN ph > D1_PH_MAX ELSE ph # NoVal /\ ph > D2_PH_MAX

dose_Acid(ph) == IF dist = 1 THEN D1_dose_Acid(ph) ELSE D2_dose_Acid(ph)

\* variant: the finally clause does not unlock
flock_un_skipped(who, l) == l

\* releasing the lock file in a finally clause
flock_un(who, l) == IF l = who THEN "none" ELSE l

\* the three states of the controller's state machine
ctlState ==
  IF pc \in {"start", "waiting"} THEN "WAITING_FOR_START"
  ELSE IF pc = "done" THEN "STOPPED" ELSE "RUNNING"

\* ------------------------------------------------------------------- Init
ProgramInit ==
  /\ dist \in {1, 2}
  /\ GPIO_OK \in (IF dist = 1 THEN BOOLEAN ELSE {TRUE})
  /\ pc = "start"
  /\ stdin = <<>>
  /\ now \in FirstHour..LastHour
  /\ last_slot = NoSlot
  /\ cur_slot = NoSlot
  /\ lock = "none"
  /\ pump = [x \in Pumps |-> IF dist = 1 /\ GPIO_OK THEN "OFF" ELSE "NONE"]
  /\ ec_list = <<>> /\ ph_list = <<>> /\ tp_list = <<>>
  /\ i = 0
  /\ rep = <<NoVal, NoVal, NoVal>>
  /\ waitLeft = 0
  /\ ppc = [q \in Pollers |-> "idle"]
  /\ res = "NONE"
  /\ runs = [k \in SlotKeys |-> 0]
  /\ rows = 0
  /\ doses = <<>>
  /\ turned_on = {}
  /\ stopSeen = "no"
  /\ aborted = "none"
  /\ row_err = FALSE
  /\ dose_err = "none"
  /\ err_line = FALSE
  /\ epc = "idle"
  /\ frame = NoFrame
  /\ streak = 0
  /\ hist_ec = <<>> /\ hist_ph = <<>> /\ hist_tp = <<>>
  /\ rep_ec = NoVal /\ rep_ph = NoVal /\ rep_tp = NoVal
  /\ pend_ec = <<>> /\ pend_ph = <<>> /\ pend_tp = <<>>
  /\ rq_who = "none" /\ rq_pc = "idle" /\ tries = <<>> /\ delays = 0
  /\ key_a = NoSlot /\ key_b = NoSlot
  /\ w_pc = "idle" /\ w_dev = "none" /\ elapsed = 0
  /\ hp_hist = <<>> /\ hp_x = NoVal /\ hp_out = "none"
  /\ pm_kind = "none" /\ pm_t = 0
  /\ pm_read = <<NoVal, NoVal, NoVal, "none">>
  /\ latest = <<NoVal, NoVal, NoVal>> /\ latest_err = "none"
  /\ last_saved_slot = NoSlot /\ last_json_minute = NoSlot
  /\ saved = <<>> /\ pm_out = <<>>
  /\ sb_pc = "idle" /\ sb_step = 0 /\ sb_now = 0 /\ sb_next = NoVal
  /\ tw_kind = "none" /\ tw_pc = "idle" /\ tw_in = <<>>
  /\ first_input = "unset" /\ tw_t = 0 /\ tw_now = NoVal
  /\ tw_pump = "NONE" /\ last_on_minute = NoSlot /\ tw_rows = <<>>

\* the deployed SCHEDULE_MODE; no instant has been given to slot_stamp
Init ==
  /\ ProgramInit
  /\ sl_mode = "4hour" /\ sl_a = <<1, 0>> /\ sl_b = <<1, 0>>

\* ------------------------------------------------- controller: main loop
\* what the initial wait loop does with one read_payload() value
\* variant: the initial wait of Dist_1 drops a STOP as Dist_2 does
D1_wait_ignore_stop(sw) == IF sw = "True" THEN "running" ELSE "waiting"

D1_wait_next(sw) ==
  IF sw = "True" THEN "running" ELSE IF sw = "False" THEN "done" ELSE "waiting"

D2_wait_next(sw) == IF sw = "True" THEN "running" ELSE "waiting"

wait_next(sw) == IF dist = 1 THEN D1_wait_next(sw) ELSE D2_wait_next(sw)

\* variant: no break after a cycle that returned STOP
main_loop_no_break(r) == "running"

\* what the main loop does with the result of a cycle
main_loop_next(r) == IF r = "STOP" THEN "done" ELSE "running"

\* variant: a cycle that ended on STOP leaves the slot unmarked
D1_next_last_slot_unless_stop(r, cur, last) == IF r = "STOP" THEN last ELSE cur

D1_next_last_slot(r, cur, last) == cur

\* variant: only a cycle that ended OK marks its slot
D2_next_last_slot_ok_only(r, cur, last) == IF r = "OK" THEN cur ELSE last

D2_next_last_slot(r, cur, last) == IF r = "STOP" THEN last ELSE cur

\* variant: a failed cycle leaves the slot unmarked
next_last_slot_retry(r, cur, last) == IF r = "FAIL" THEN last ELSE cur

next_last_slot(r, cur, last) ==
  IF dist = 1 THEN D1_next_last_slot(r, cur, last) ELSE D2_next_last_slot(r, cur, last)

\* variant: a lock that never blocks
flock_ex_always(l) == TRUE

\* the lock file as the kernel sees it: LOCK_EX is granted when nobody holds it
flock_ex_granted(l) == l = "none"

\* the finally clauses that release the lock
D1_control_once_finally(l) == flock_un("ctl", l)

\* variant: the lock is kept until the cycle returns
D2_read_representative_3_keeps_lock(l) == l

D2_read_representative_3_finally(l) == flock_un("ctl", l)

\* variant: the ON command reaches both relays
run_pump_on_both(dev, p) == [x \in Pumps |-> "ON"]

\* run_pump switches its pump on: GPIO.output(pin, GPIO.LOW) (Dist_1),
\* gpio(topic, GPIO_ON) (Dist_2)
run_pump_on(dev, p) == [p EXCEPT ![dev] = "ON"]

\* variant: run_pump has no finally clause
run_pump_finally_skipped(dev, p) == p

\* the finally clause of run_pump: the pump is switched off however the wait
\* ended
run_pump_finally(dev, p) == [p EXCEPT ![dev] = "OFF"]

\* variant: the record is written in a finally clause
run_pump_record_always(dev, completed, d) == Append(d, dev)

\* the dose record of one run_pump call: written only when the wait completed
run_pump_record(dev, completed, d) == IF completed THEN Append(d, dev) ELSE d

\* the cycle returns r to main_loop, p being the pump commands issued so far and
\* l the lock after read_representative_3: control_once's finally (Dist_1),
\* last_slot, the break on STOP and main_loop's finally
CycleReturn(r, p, l) ==
  /\ res' = r
  /\ last_slot' = next_last_slot(r, cur_slot, last_slot)
  /\ pc' = main_loop_next(r)
  /\ pump' = IF main_loop_next(r) = "done" THEN force_off(p) ELSE p
  /\ lock' = IF dist = 1 THEN D1_control_once_finally(l) ELSE l
  /\ ec_list' = <<>> /\ ph_list' = <<>> /\ tp_list' = <<>> /\ i' = 0
  /\ waitLeft' = 0

Startup ==
  /\ pc = "start"
  /\ pc' = "waiting"
  /\ pump' = IF dist = 2 THEN D2_force_all_off(pump) ELSE pump
  /\ UNCHANGED <<dist, GPIO_OK, stdin, now, last_slot, cur_slot, lock,
                 ec_list, ph_list, tp_list, i, rep, waitLeft, ppc, res, runs,
                 rows, doses, turned_on, stopSeen, aborted>>
  /\ UNCHANGED <<row_err, dose_err, err_line, auxVars>>

WaitPoll ==
  /\ pc = "waiting"
  /\ stdin' = stdin_rest
  /\ pc' = wait_next(read_payload)
  /\ pump' = IF wait_next(read_payload) = "done" THEN force_off(pump) ELSE pump
  /\ last_slot' = NoSlot
  /\ UNCHANGED <<dist, GPIO_OK, now, cur_slot, lock, ec_list, ph_list,
                 tp_list, i, rep, waitLeft, ppc, res, runs, rows, doses,
                 turned_on, stopSeen, aborted>>
  /\ UNCHANGED <<row_err, dose_err, err_line, auxVars>>

RunPoll ==
  /\ pc = "running"
  /\ stdin' = stdin_rest
  /\ IF read_payload = "False"
       THEN /\ pc' = "done"
            /\ pump' = force_off(force_off(pump))
            /\ stopSeen' = "main"
            /\ UNCHANGED <<cur_slot, runs, rows, doses, turned_on, rep, res,
                           row_err, dose_err, err_line>>
       ELSE IF due(now, last_slot)
         THEN /\ pc' = "lockwait"
              /\ cur_slot' = slot_of(now)
              /\ runs' = [runs EXCEPT ![slot_of(now)] = @ + 1]
              /\ rows' = 0
              /\ doses' = <<>>
              /\ turned_on' = {}
              /\ rep' = <<NoVal, NoVal, NoVal>>
              /\ res' = "NONE"
              /\ row_err' = FALSE
              /\ dose_err' = "none"
              /\ err_line' = FALSE
              /\ UNCHANGED <<pump, stopSeen>>
         ELSE UNCHANGED <<pc, pump, stopSeen, cur_slot, runs, rows, doses,
                          turned_on, rep, res, row_err, dose_err,
                          err_line>>
  /\ UNCHANGED <<dist, GPIO_OK, now, last_slot, lock, ec_list, ph_list,
                 tp_list, i, waitLeft, ppc, aborted>>
  /\ UNCHANGED auxVars

CtlLock ==
  /\ pc = "lockwait"
  /\ flock_ex_granted(lock)
  /\ lock' = "ctl"
  /\ pc' = IF dist = 1 THEN "avg_poll" ELSE "read_poll"
  /\ UNCHANGED <<dist, GPIO_OK, stdin, now, last_slot, cur_slot, pump,
                 ec_list, ph_list, tp_list, i, rep, waitLeft, ppc, res, runs,
                 rows, doses, turned_on, stopSeen, aborted>>
  /\ UNCHANGED <<row_err, dose_err, err_line, auxVars>>

\* ------------------------------------------------ controller: acquisition
\* Dist_1 average_ec_ph_temp: the representative values of the lists
D1_avg(l) == Round(Sum(l), Len(l))

\* avg_ph = round(0.9926 * mean - 0.2488, 2), in hundredths
D1_avg_ph(l) == Round(9926 * Sum(l) - 248800 * Len(l), 10000 * Len(l))

\* Dist_2 read_representative_3: round(median(list), 2)
D2_rep(l) == Round(median(l)[1], median(l)[2])

\* Dist_2: the lists are enough for a representative
D2_enough(el, tl) == ~(Len(el) < 2 \/ Len(tl) < 2)

\* variant: the acquisition does not look at the switch
acq_stop_never(sw) == FALSE

\* "if sw is False: return STOP" before each sub-read of an acquisition
acq_stop(sw) == sw = "False"

\* one loop iteration of average_ec_ph_temp, up to the sensor read
D1_average_poll ==
  /\ dist = 1
  /\ pc = "avg_poll"
  /\ stdin' = stdin_rest
  /\ IF acq_stop(read_payload)
       THEN /\ stopSeen' = "acq"
            /\ CycleReturn("STOP", pump, lock)
       ELSE /\ pc' = "avg_xchg"
            /\ UNCHANGED <<stopSeen, res, last_slot, pump, lock, ec_list,
                           ph_list, tp_list, i, waitLeft>>
  /\ UNCHANGED <<dist, GPIO_OK, now, cur_slot, rep, ppc, runs, rows,
                 doses, turned_on, aborted>>
  /\ UNCHANGED <<row_err, dose_err, err_line, auxVars>>

\* safe_read_once, and the end of the averaging window
D1_average_read ==
  /\ dist = 1
  /\ pc = "avg_xchg"
  /\ \E ok \in BOOLEAN, ec \in D1_RawEC, ph \in D1_RawPH, tp \in D1_RawTP,
        more \in BOOLEAN :
       LET el == IF ok THEN Append(ec_list, ec) ELSE ec_list
           pl == IF ok THEN Append(ph_list, ph) ELSE ph_list
           tl == IF ok THEN Append(tp_list, tp) ELSE tp_list
       IN  IF more /\ i + 1 < AvgReads
             THEN /\ pc' = "avg_poll"
                  /\ ec_list' = el /\ ph_list' = pl /\ tp_list' = tl
                  /\ i' = i + 1
                  /\ UNCHANGED <<res, last_slot, pump, lock, rep, waitLeft>>
             ELSE IF el = <<>> \/ pl = <<>> \/ tl = <<>>
               THEN /\ CycleReturn("FAIL", pump, lock)
                    /\ UNCHANGED rep
               ELSE /\ rep' = <<D1_avg(el), D1_avg_ph(pl), D1_avg(tl)>>
                    /\ pc' = "log"
                    /\ ec_list' = <<>> /\ ph_list' = <<>> /\ tp_list' = <<>>
                    /\ i' = 0
                    /\ UNCHANGED <<res, last_slot, pump, lock, waitLeft>>
  /\ UNCHANGED <<dist, GPIO_OK, stdin, now, cur_slot, ppc, runs, rows,
                 doses, turned_on, stopSeen, aborted>>
  /\ UNCHANGED <<row_err, dose_err, err_line, auxVars>>

\* the sample list after one request: the value is counted when the request
\* gave no error and the value is in the channel's band
D2_count(l, x, lo, hi, err) ==
  IF ~err /\ valid_range(x, lo, hi) THEN Append(l, x) ELSE l

\* one loop iteration of read_representative_3, up to request_once_locked
D2_read_poll ==
  /\ dist = 2
  /\ pc = "read_poll"
  /\ stdin' = stdin_rest
  /\ IF acq_stop(read_payload)
       THEN /\ stopSeen' = "acq"
            /\ CycleReturn("STOP", D2_force_all_off(pump),
                           D2_read_representative_3_finally(lock))
       ELSE /\ pc' = "read_xchg"
            /\ UNCHANGED <<stopSeen, res, last_slot, pump, lock, ec_list,
                           ph_list, tp_list, i, waitLeft>>
  /\ UNCHANGED <<dist, GPIO_OK, now, cur_slot, rep, ppc, runs, rows,
                 doses, turned_on, aborted>>
  /\ UNCHANGED <<row_err, dose_err, err_line, auxVars>>

\* request_once_locked, range validation and, after the last read, the result
D2_read_request ==
  /\ dist = 2
  /\ pc = "read_xchg"
  /\ \E err \in BOOLEAN, ec \in D2_RawEC, ph \in D2_RawPH, tp \in D2_RawTP :
       /\ err => (ec = NoVal /\ ph = NoVal /\ tp = NoVal)
       /\ ~err => ~(ec = NoVal /\ ph = NoVal /\ tp = NoVal)
       /\ LET el == D2_count(ec_list, ec, D2_VALID_EC_MIN, D2_VALID_EC_MAX, err)
              pl == D2_count(ph_list, ph, D2_VALID_PH_MIN, D2_VALID_PH_MAX, err)
              tl == D2_count(tp_list, tp, D2_VALID_TP_MIN, D2_VALID_TP_MAX, err)
          IN  IF i + 1 < D2_READ_N
                THEN /\ pc' = "read_poll"
                     /\ ec_list' = el /\ ph_list' = pl /\ tp_list' = tl
                     /\ i' = i + 1
                     /\ UNCHANGED <<res, last_slot, pump, lock, rep, waitLeft>>
                ELSE IF ~D2_enough(el, tl)
                  THEN /\ CycleReturn("FAIL", pump,
                                      D2_read_representative_3_finally(lock))
                       /\ UNCHANGED rep
                  ELSE /\ rep' = <<D2_rep(el),
                                   IF pl # <<>> THEN D2_rep(pl) ELSE NoVal,
                                   D2_rep(tl)>>
                       /\ lock' = D2_read_representative_3_finally(lock)
                       /\ pc' = "log"
                       /\ ec_list' = <<>> /\ ph_list' = <<>> /\ tp_list' = <<>>
                       /\ i' = 0
                       /\ UNCHANGED <<res, last_slot, pump, waitLeft>>
  /\ UNCHANGED <<dist, GPIO_OK, stdin, now, cur_slot, ppc, runs, rows,
                 doses, turned_on, stopSeen, aborted>>
  /\ UNCHANGED <<row_err, dose_err, err_line, auxVars>>

\* ---------------------------------------------------- controller: dosing
\* variant: the row is not written
append_sensor_row_skipped(n, ok) == n

\* the rows of the sensor log after one append_sensor_row / log_sensor call
append_sensor_row(n, ok) == IF ok THEN n + 1 ELSE n

\* log_sensor (Dist_1, a failure raises into control_once's handler) and
\* append_sensor_row (Dist_2, a failure is swallowed by "except: pass")
LogSensor ==
  /\ pc = "log"
  /\ \E ok \in BOOLEAN :
       /\ row_err' = ~ok
       /\ err_line' = (dist = 1 /\ ~ok)
       /\ IF ok \/ dist = 2
            THEN /\ rows' = append_sensor_row(rows, ok)
                 /\ pc' = "check_ec"
                 /\ UNCHANGED <<res, last_slot, pump, lock, ec_list, ph_list,
                                tp_list, i, waitLeft>>
            ELSE /\ CycleReturn("FAIL", pump, lock)
                 /\ UNCHANGED rows
  /\ UNCHANGED <<dist, GPIO_OK, stdin, now, cur_slot, rep, ppc, runs,
                 doses, turned_on, stopSeen, aborted, dose_err>>
  /\ UNCHANGED auxVars

\* run_pump up to the timed wait: Dist_1 raises when the GPIO is not available
StartPump(dev) ==
  IF dist = 1 /\ ~GPIO_OK
    THEN /\ CycleReturn("FAIL", pump, lock)
         /\ err_line' = TRUE
         /\ UNCHANGED turned_on
    ELSE /\ pump' = run_pump_on(dev, pump)
         /\ UNCHANGED err_line
         /\ turned_on' = turned_on \cup {dev}
         /\ waitLeft' = DosePolls
         /\ pc' = IF dev = "AB" THEN "pump_AB" ELSE "pump_Acid"
         /\ UNCHANGED <<res, last_slot, lock, ec_list, ph_list, tp_list, i>>

CheckEC ==
  /\ pc = "check_ec"
  /\ IF dose_AB(rep[1])
       THEN StartPump("AB")
       ELSE /\ pc' = "check_ph"
            /\ UNCHANGED <<res, last_slot, pump, lock, ec_list, ph_list,
                           tp_list, i, waitLeft, turned_on, err_line>>
  /\ UNCHANGED <<dist, GPIO_OK, stdin, now, cur_slot, rep, ppc, runs,
                 rows, doses, stopSeen, aborted>>
  /\ UNCHANGED <<row_err, dose_err, auxVars>>

CheckPH ==
  /\ pc = "check_ph"
  /\ IF dose_Acid(rep[2])
       THEN StartPump("Acid")
       ELSE /\ CycleReturn("OK", pump, lock)
            /\ UNCHANGED <<turned_on, err_line>>
  /\ UNCHANGED <<dist, GPIO_OK, stdin, now, cur_slot, rep, ppc, runs,
                 rows, doses, stopSeen, aborted>>
  /\ UNCHANGED <<row_err, dose_err, auxVars>>

\* one turn of the timed wait of run_pump(dev): the wait is over (pump OFF, dose
\* record, next rule), or one 50 ms poll of the stop signal
PumpPoll(dev) ==
  /\ pc = (IF dev = "AB" THEN "pump_AB" ELSE "pump_Acid")
  /\ IF waitLeft = 0
       THEN /\ \E ok \in (IF dist = 1 THEN BOOLEAN ELSE {TRUE}) :
                 IF ok
                   THEN /\ UNCHANGED <<dose_err, err_line>>
                        /\ doses' = run_pump_record(dev, TRUE, doses)
                        /\ IF dev = "AB"
                             THEN /\ pc' = "check_ph"
                                  /\ pump' = run_pump_finally(dev, pump)
                                  /\ UNCHANGED <<res, last_slot, lock, ec_list,
                                                 ph_list, tp_list, i, waitLeft>>
                             ELSE CycleReturn("OK", run_pump_finally(dev, pump),
                                              lock)
                   ELSE /\ CycleReturn("FAIL", run_pump_finally(dev, pump),
                                       lock)
                        /\ dose_err' = dev
                        /\ err_line' = TRUE
                        /\ UNCHANGED doses
            /\ UNCHANGED <<stdin, stopSeen, aborted>>
       ELSE /\ stdin' = stdin_rest
            /\ UNCHANGED <<dose_err, err_line>>
            /\ IF read_payload = "False"
                 THEN /\ stopSeen' = "pump"
                      /\ aborted' = dev
                      /\ doses' = run_pump_record(dev, FALSE, doses)
                      /\ CycleReturn("STOP",
                                     force_off(run_pump_finally(dev, pump)),
                                     lock)
                 ELSE /\ waitLeft' = waitLeft - 1
                      /\ UNCHANGED <<stopSeen, aborted, doses, res, last_slot,
                                     pc, pump, lock, ec_list, ph_list, tp_list, i>>
  /\ UNCHANGED <<dist, GPIO_OK, now, cur_slot, rep, ppc, runs, rows,
                 turned_on>>
  /\ UNCHANGED <<row_err, auxVars>>

\* ----------------------------------------------------------- the pollers
\* Dist_1: sensors/Dist_1_EC_pH.py; Dist_2: sensors/Dist_2_EC_pH.py and
\* sensors/room_condition.py, all on the deployment's lock file
ActivePollers == IF dist = 1 THEN {"sensor"} ELSE {"sensor", "room"}

\* the finally clause of read_with_lock / request_once_with_lock_and_retry /
\* read_sensor_with_lock_and_retry
poller_finally(q, l) == flock_un(q, l)

\* the 10 s boundary is reached: the poller opens the lock file and calls flock
PollerTick(q) ==
  /\ q \in ActivePollers
  /\ ppc[q] = "idle"
  /\ ppc' = [ppc EXCEPT ![q] = "lockwait"]
  /\ UNCHANGED <<dist, GPIO_OK, now, lock>>
  /\ UNCHANGED ctlVars
  /\ UNCHANGED auxVars

PollerLock(q) ==
  /\ q \in ActivePollers
  /\ ppc[q] = "lockwait"
  /\ flock_ex_granted(lock)
  /\ lock' = q
  /\ ppc' = [ppc EXCEPT ![q] = "xchg"]
  /\ UNCHANGED <<dist, GPIO_OK, now>>
  /\ UNCHANGED ctlVars
  /\ UNCHANGED auxVars

\* the read-retry sequence ends (a value, or an error after the retries) and
\* the function returns through its finally clause
PollerRead(q) ==
  /\ q \in ActivePollers
  /\ ppc[q] = "xchg"
  /\ lock' = poller_finally(q, lock)
  /\ ppc' = [ppc EXCEPT ![q] = "idle"]
  /\ UNCHANGED <<dist, GPIO_OK, now>>
  /\ UNCHANGED ctlVars
  /\ UNCHANGED auxVars

\* ------------------------------------------------------- the environment
\* the wall clock passes an hour boundary.  Only the main loop reads the clock
\* (datetime.now() at each tick), so a boundary that falls inside a cycle is
\* taken when the cycle has returned, before the next tick reads the clock
Tick ==
  /\ now < LastHour
  /\ pc \in {"start", "waiting", "running"}
  /\ now' = now + 1
  /\ UNCHANGED <<dist, GPIO_OK, lock, ppc>>
  /\ UNCHANGED ctlVars
  /\ UNCHANGED auxVars

\* the host writes one line to the controller's stdin
HostSend(l) ==
  /\ Len(stdin) < MaxQueue
  /\ pc # "done"
  /\ stdin' = Append(stdin, l)
  /\ UNCHANGED <<dist, GPIO_OK, pc, now, last_slot, cur_slot, lock, pump,
                 ec_list, ph_list, tp_list, i, rep, waitLeft, ppc, res, runs,
                 rows, doses, turned_on, stopSeen, aborted>>
  /\ UNCHANGED <<row_err, dose_err, err_line, auxVars>>

\* the controller's steps that do not wait for another process
CtlRun ==
  \/ Startup
  \/ WaitPoll
  \/ RunPoll
  \/ D1_average_poll
  \/ D1_average_read
  \/ D2_read_poll
  \/ D2_read_request
  \/ LogSensor
  \/ CheckEC
  \/ CheckPH
  \/ PumpPoll("AB")
  \/ PumpPoll("Acid")

Next ==
  \/ CtlRun
  \/ CtlLock
  \/ \E q \in Pollers : PollerTick(q)
  \/ \E q \in Pollers : PollerLock(q)
  \/ \E q \in Pollers : PollerRead(q)
  \/ Tick
  \/ \E l \in Lines : HostSend(l)

Spec == Init /\ [][Next]_vars

\* --------------------------------------- the script sensors/EC_pH.py
\* main() of sensors/EC_pH.py reads the Dist_1 EC/pH port once a second for
\* DURATION_SEC seconds; safe_read_once takes no lock.  One call begins ...
EC_pH_safe_read_once ==
  /\ dist = 1
  /\ epc = "idle"
  /\ epc' = "xchg"
  /\ UNCHANGED <<dist, GPIO_OK, now, lock, ppc, windowVars,
                 boundaryVars,
                 pollVars,
                 hampelVars,
                 filterVars, retryVars,
                 slotVars, waitVars>>
  /\ UNCHANGED ctlVars

\* ... and returns, with the three registers or with (None, None, None)
EC_pH_safe_read_return ==
  /\ dist = 1
  /\ epc = "xchg"
  /\ epc' = "idle"
  /\ UNCHANGED <<dist, GPIO_OK, now, lock, ppc, windowVars,
                 boundaryVars,
                 pollVars,
                 hampelVars,
                 filterVars, retryVars,
                 slotVars, waitVars>>
  /\ UNCHANGED ctlVars

\* every process of the repository that talks to a deployment's sensor port
BusNext ==
  \/ Next
  \/ EC_pH_safe_read_once
  \/ EC_pH_safe_read_return

BusSpec == Init /\ [][BusNext]_vars

\* ------------------------------ an exception that leaves the cycle
\* Opening or locking /tmp/rs485_bus.lock raises (OSError): both controllers
\* do it outside every try of the cycle, so the exception leaves the cycle
\* and the main loop.  main_loop's finally forces the pumps off, then the
\* process ends with the traceback; the cycle has no result and the lock was
\* never taken
control_once_raises ==
  /\ pc = "lockwait"
  /\ pc' = "done"
  /\ pump' = force_off(pump)
  /\ UNCHANGED <<dist, GPIO_OK, stdin, now, last_slot, cur_slot, lock,
                 ec_list, ph_list, tp_list, i, rep, waitLeft, ppc, res, runs,
                 rows, doses, turned_on, stopSeen, aborted>>
  /\ UNCHANGED <<row_err, dose_err, err_line, auxVars>>

CrashNext ==
  \/ Next
  \/ control_once_raises

CrashSpec == Init /\ [][CrashNext]_vars

\* ------------------------- the Dist_2 poller's filter (sensors/Dist_2_EC_pH.py)
\* Units of this section: 0.005, so that a two-decimal reading is an even
\* integer and the median of two readings is an integer (1.00 -> 200).
S2_VALID_EC_MIN == 0
S2_VALID_EC_MAX == 1000
S2_VALID_PH_MIN == 400
S2_VALID_PH_MAX == 2000
S2_VALID_TP_MIN == 2000
S2_VALID_TP_MAX == 10000
HAMPEL_WIN == 15
HAMPEL_K == 3
CONFIRM_N == 3
CONFIRM_M == 2
EC_BAND_ABS == 40
PH_BAND_ABS == 100
TP_BAND_ABS == 400

\* what one request of the poller can return, per channel: the channel's
\* steady value, other valid values, and absent or out-of-band values
S2_Steady == <<200, 1200, 5000>>
S2_RawEC == {S2_Steady[1], 250, 300, 1200}
S2_RawPH == {S2_Steady[2], 1800, 0, NoVal}
S2_RawTP == {S2_Steady[3], 5004, 5060, 12000}

abs(x) == IF x < 0 THEN -x ELSE x

\* variant: nothing is dropped
last_all(s, n) == s

\* s[-n:]
last(s, n) == IF Len(s) <= n THEN s ELSE SubSeq(s, Len(s) - n + 1, Len(s))

\* median(values), doubled: an integer also for an even number of values
median2(values) == (2 * median(values)[1]) \div median(values)[2]

valid_ec(x) == x # NoVal /\ S2_VALID_EC_MIN <= x /\ x <= S2_VALID_EC_MAX

\* variant: the lower edge of the pH band is not tested
valid_ph_no_floor(x) == x # NoVal /\ x <= S2_VALID_PH_MAX

valid_ph(x) == x # NoVal /\ S2_VALID_PH_MIN <= x /\ x <= S2_VALID_PH_MAX

valid_tp(x) == x # NoVal /\ S2_VALID_TP_MIN <= x /\ x <= S2_VALID_TP_MAX

\* variant: the deviations are signed
mad4_signed(values, med2) ==
  median2([j \in 1..Len(values) |-> 2 * values[j] - med2])

\* mad(values, med), times four: med2 is the doubled median
mad4(values, med2) ==
  median2([j \in 1..Len(values) |-> abs(2 * values[j] - med2)])

\* the bootstrap length max(5, HAMPEL_WIN // 3)
Bootstrap == IF 5 > HAMPEL_WIN \div 3 THEN 5 ELSE HAMPEL_WIN \div 3

\* variant: the Hampel test is switched off
hampel_accept_all(candidate, history, k) == TRUE

\* hampel_accept: sigma = 1.4826 * mad, and |c - m| <= k * sigma is
\* 2 * |2c - 2m| * 10000 <= k * 14826 * (4 mad)
hampel_accept(candidate, history, k) ==
  IF Len(history) < Bootstrap THEN TRUE
  ELSE LET window == last(history, HAMPEL_WIN)
           m2 == median2(window)
           mad_v == mad4(window, m2)
       IN  IF mad_v = 0 THEN 2 * candidate = m2
           ELSE 20000 * abs(2 * candidate - m2) <= k * 14826 * mad_v

within_band(a, b, band_abs) ==
  a # NoVal /\ b # NoVal /\ abs(a - b) <= band_abs

\* confirmation_update: <<new representative, new pending list>>
confirmation_update(r, pending_list, candidate, band_abs, n, m) ==
  IF r = NoVal THEN <<candidate, <<>>>>
  ELSE IF within_band(candidate, r, band_abs) THEN <<candidate, <<>>>>
  ELSE LET pl == last(Append(pending_list, candidate), n)
           pm2 == median2(pl)
           IsClose(x) == abs(2 * x - pm2) <= 2 * band_abs
           close == SelectSeq(pl, IsClose)
       IN  IF Len(close) >= m THEN <<median2(close) \div 2, <<>>>>
           ELSE <<r, pl>>

\* one channel's block of the main loop: <<history, representative, pending>>
main_channel(h, r, p, x, valid, band_abs) ==
  IF valid /\ hampel_accept(x, h, HAMPEL_K)
    THEN LET cu == confirmation_update(r, p, x, band_abs, CONFIRM_N, CONFIRM_M)
         IN  <<last(Append(h, x), HAMPEL_WIN * 3), cu[1], cu[2]>>
    ELSE <<h, r, p>>

\* variant: a frame without a valid pH is dropped as a whole
frame_ec_needs_ph(f) == IF valid_ph(f[2]) THEN f[1] ELSE NoVal

\* the ec / ph / tp the main loop takes from the request's result
frame_ec(f) == f[1]

frame_ph(f) == f[2]

frame_tp(f) == f[3]

Steady(h, v) == \A j \in 1..Len(h) : h[j] = v

\* the channels (1 EC, 2 pH, 3 temperature) whose input has left the steady
\* value so far: a history with another value, or one that missed a frame
S2_Disturbed ==
  LET h == <<hist_ec, hist_ph, hist_tp>>
  IN  {c \in 1..3 : \/ ~Steady(h[c], S2_Steady[c])
                    \/ \E d \in 1..3 : Len(h[c]) < Len(h[d])}

\* the frames explored from the current state: an error, or channel values
\* such that one channel at most is ever away from its steady value in a
\* behaviour
S2_Frames ==
  {<<NoVal, NoVal, NoVal, TRUE>>} \cup
  {f \in S2_RawEC \X S2_RawPH \X S2_RawTP \X {FALSE} :
     Cardinality(S2_Disturbed \cup {c \in 1..3 : f[c] # S2_Steady[c]}) <= 1}

\* one turn of the poller's main loop, from the request to the three channels,
\* the request returning one of `frames`; explored up to histories of `cap`
main_poll(frames, cap) ==
  /\ i = 0
  /\ Len(hist_ec) < cap /\ Len(hist_ph) < cap /\ Len(hist_tp) < cap
  /\ \E f \in frames :
       /\ frame' = f
       /\ streak' = IF f # frame THEN 1
                    ELSE IF streak < CONFIRM_M THEN streak + 1 ELSE streak
       /\ IF f[4]
            THEN UNCHANGED <<hist_ec, hist_ph, hist_tp, rep_ec, rep_ph, rep_tp,
                             pend_ec, pend_ph, pend_tp>>
            ELSE LET e == main_channel(hist_ec, rep_ec, pend_ec, frame_ec(f),
                                       valid_ec(frame_ec(f)), EC_BAND_ABS)
                     p == main_channel(hist_ph, rep_ph, pend_ph, frame_ph(f),
                                       valid_ph(frame_ph(f)), PH_BAND_ABS)
                     t == main_channel(hist_tp, rep_tp, pend_tp, frame_tp(f),
                                       valid_tp(frame_tp(f)), TP_BAND_ABS)
                 IN  /\ hist_ec' = e[1] /\ rep_ec' = e[2] /\ pend_ec' = e[3]
                     /\ hist_ph' = p[1] /\ rep_ph' = p[2] /\ pend_ph' = p[3]
                     /\ hist_tp' = t[1] /\ rep_tp' = t[2] /\ pend_tp' = t[3]
  /\ UNCHANGED <<dist, GPIO_OK, now, lock, ppc, windowVars,
                 boundaryVars,
                 pollVars,
                 hampelVars,
                 epc, retryVars, slotVars,
                 waitVars>>
  /\ UNCHANGED ctlVars

FilterPoll == main_poll(S2_Frames, MaxHist)

\* the body of read_representative_3's loop on its own: one request and the
\* three range tests (hundredths, as in the controller)
D2_sample(RawEC, RawPH, RawTP) ==
  /\ frame = NoFrame \/ i > 0
  /\ i < D2_READ_N
  /\ \E err \in BOOLEAN, ec \in RawEC, ph \in RawPH, tp \in RawTP :
       /\ err => (ec = NoVal /\ ph = NoVal /\ tp = NoVal)
       /\ ~err => ~(ec = NoVal /\ ph = NoVal /\ tp = NoVal)
       /\ frame' = <<ec, ph, tp, err>>
       /\ ec_list' = D2_count(ec_list, ec, D2_VALID_EC_MIN, D2_VALID_EC_MAX, err)
       /\ ph_list' = D2_count(ph_list, ph, D2_VALID_PH_MIN, D2_VALID_PH_MAX, err)
       /\ tp_list' = D2_count(tp_list, tp, D2_VALID_TP_MIN, D2_VALID_TP_MAX, err)
  /\ i' = i + 1
  /\ UNCHANGED <<dist, GPIO_OK, pc, stdin, now, last_slot, cur_slot, lock, pump,
                 rep, waitLeft, ppc, res, runs, rows, doses, turned_on,
                 stopSeen, aborted, row_err, dose_err, err_line, epc, streak,
                 hist_ec, hist_ph, hist_tp, rep_ec, rep_ph, rep_tp, pend_ec,
                 pend_ph, pend_tp, windowVars, boundaryVars, pollVars,
                 hampelVars, retryVars, slotVars,
                 waitVars>>

D2_sample_read == D2_sample(D2_RawEC, D2_RawPH, D2_RawTP)

\* the two acquisition strategies, one per behaviour: the first step decides
FilterInit == Init /\ dist = 2 /\ now = FirstHour

FilterNext ==
  \/ FilterPoll
  \/ D2_sample_read

FilterSpec == FilterInit /\ [][FilterNext]_vars

\* read_representative_3 on its own, on the samples of the spec's scenario:
\* the three requests ...
S3_RawEC == {NoVal, 0, 110, 112}
S3_RawPH == {NoVal, 620}
S3_RawTP == {NoVal, 2500}

S3_sample_read == D2_sample(S3_RawEC, S3_RawPH, S3_RawTP)

\* ... and the result after the loop; the lists are kept as they were at
\* the return
D2_sample_result ==
  /\ i = D2_READ_N
  /\ res = "NONE"
  /\ IF ~D2_enough(ec_list, tp_list)
       THEN /\ res' = "FAIL"
            /\ UNCHANGED rep
       ELSE /\ res' = "OK"
            /\ rep' = <<D2_rep(ec_list),
                        IF ph_list # <<>> THEN D2_rep(ph_list) ELSE NoVal,
                        D2_rep(tp_list)>>
  /\ UNCHANGED <<dist, GPIO_OK, pc, stdin, now, last_slot, cur_slot, lock, pump,
                 ec_list, ph_list, tp_list, i, waitLeft, ppc, runs, rows,
                 doses, turned_on, stopSeen, aborted, row_err, dose_err,
                 err_line>>
  /\ UNCHANGED auxVars

SampleNext ==
  \/ S3_sample_read
  \/ D2_sample_result

SampleSpec == FilterInit /\ [][SampleNext]_vars

\* ------------------------------------------- slot_stamp in its three modes
Modes == {"30min", "1hour", "4hour"}

\* strftime("%Y%m%d") of the days explored, and the minutes of the day
SlotDates == <<20251231, 20260101, 20260102>>

SlotMinutes == {0, 29, 30, 59, 60, 239, 240, 1439}

Instants == (1..Len(SlotDates)) \X SlotMinutes

\* variant: the key without the date
slot_stamp_mode_no_date(mode, t) ==
  LET hour == t[2] \div 60
      minute == t[2] % 60
  IN  IF mode = "30min" THEN <<hour, IF minute < 30 THEN 0 ELSE 30>>
      ELSE IF mode = "1hour" THEN <<hour>>
      ELSE <<(hour \div 4) * 4>>

\* slot_stamp(dt) under SCHEDULE_MODE = mode, dt = <<day, minute of the day>>;
\* the key is a string of fixed-width decimal fields, given as their tuple
slot_stamp_mode(mode, t) ==
  LET date == SlotDates[t[1]]
      hour == t[2] \div 60
      minute == t[2] % 60
  IN  IF mode = "30min" THEN <<date, hour, IF minute < 30 THEN 0 ELSE 30>>
      ELSE IF mode = "1hour" THEN <<date, hour>>
      ELSE <<date, (hour \div 4) * 4>>

\* the two calls of slot_stamp
slot_stamp_call ==
  /\ key_b = NoSlot
  /\ IF key_a = NoSlot
       THEN /\ key_a' = slot_stamp_mode(sl_mode, sl_a)
            /\ UNCHANGED key_b
       ELSE /\ key_b' = slot_stamp_mode(sl_mode, sl_b)
            /\ UNCHANGED key_a
  /\ UNCHANGED <<dist, GPIO_OK, now, lock, ppc, windowVars,
                 boundaryVars,
                 pollVars,
                 hampelVars,
                 epc, filterVars, retryVars,
                 sl_mode, sl_a, sl_b, waitVars>>
  /\ UNCHANGED ctlVars

SlotInit ==
  /\ ProgramInit /\ dist = 2 /\ now = FirstHour
  /\ sl_mode \in Modes /\ sl_a \in Instants /\ sl_b \in Instants

SlotSpec == SlotInit /\ [][slot_stamp_call]_vars

\* ------------------------------------- the Dist_2 transport-adapter calls
\* request_once_locked (controller) and request_once_with_lock_and_retry
\* (poller): what one attempt can end with
Adapters == {"request_once_locked", "request_once_with_lock_and_retry"}

Outcomes == {"value", "no_data", "value_missing", "exception"}

\* the attempt is followed by time.sleep(RETRY_DELAY_SEC): the controller
\* sleeps in its except clause only, the poller after every failure
D2_retry_sleeps(o) == o = "exception"

S2_retry_sleeps(o) == o # "value"

retry_sleeps(w, o) ==
  IF w = "request_once_locked" THEN D2_retry_sleeps(o) ELSE S2_retry_sleeps(o)

\* the position after an attempt that was the n-th and ended with o
retry_next(n, o) ==
  IF o = "value" THEN "ok" ELSE IF n = RETRY_ATTEMPTS THEN "err" ELSE "trying"

request_begin(w) ==
  /\ rq_pc = "idle"
  /\ rq_who' = w
  /\ rq_pc' = "trying"
  /\ tries' = <<>>
  /\ delays' = 0
  /\ UNCHANGED <<dist, GPIO_OK, now, lock, ppc, windowVars,
                 boundaryVars,
                 pollVars,
                 hampelVars,
                 epc, filterVars, slotVars,
                 waitVars>>
  /\ UNCHANGED ctlVars

\* one pass of the for loop over range(RETRY_ATTEMPTS)
request_attempt ==
  /\ rq_pc = "trying"
  /\ \E o \in Outcomes :
       /\ tries' = Append(tries, o)
       /\ delays' = IF retry_sleeps(rq_who, o) THEN delays + 1 ELSE delays
       /\ rq_pc' = retry_next(Len(tries) + 1, o)
  /\ UNCHANGED <<dist, GPIO_OK, now, lock, ppc, windowVars,
                 boundaryVars,
                 pollVars,
                 hampelVars,
                 epc, filterVars, slotVars,
                 waitVars, rq_who>>
  /\ UNCHANGED ctlVars

RetryNext ==
  \/ \E w \in Adapters : request_begin(w)
  \/ request_attempt

RetrySpec == FilterInit /\ [][RetryNext]_vars

\* -------------------------------------- one run_pump call, timed in ms
\* time.sleep(0.05) returns after 50 ms, or later when the process is
\* scheduled late
SleepMs == {50, 100}

DOSE_ML == IF dist = 1 THEN D1_DOSE_ML ELSE D2_DOSE_ML

\* variant: the wait loop is never entered
wait_running_never(t) == FALSE

\* the loop condition of the timed wait,
\* (time.monotonic() - t0) < DOSE_ML / PUMP_ML_PER_SEC, for t ms elapsed:
\* t / 1000 < DOSE_ML * 100 / PUMP_ML_PER_SEC
wait_running(t) == t * PUMP_ML_PER_SEC < DOSE_ML * 100 * 1000

\* run_pump(dev) up to the first look at the clock: Dist_1 raises when the
\* GPIO is not available, otherwise the pump is switched on and t0 is taken
run_pump_call(dev) ==
  /\ w_pc = "idle"
  /\ IF dist = 1 /\ ~GPIO_OK
       THEN /\ w_pc' = "raised"
            /\ UNCHANGED <<pump, w_dev, elapsed>>
       ELSE /\ w_pc' = "waiting"
            /\ w_dev' = dev
            /\ pump' = run_pump_on(dev, pump)
            /\ elapsed' = 0
  /\ UNCHANGED <<dist, GPIO_OK, now, lock, ppc, windowVars,
                 boundaryVars,
                 pollVars,
                 hampelVars,
                 epc, filterVars, retryVars,
                 slotVars>>
  /\ UNCHANGED <<pc, stdin, last_slot, cur_slot, ec_list, ph_list, tp_list,
                 i, rep, waitLeft, res, runs, rows, doses, turned_on,
                 stopSeen, aborted, row_err, dose_err, err_line>>

\* one turn of the wait loop: the condition, then read_payload and the sleep;
\* the finally clause when the loop is left either way
run_pump_wait ==
  /\ w_pc = "waiting"
  /\ IF wait_running(elapsed)
       THEN \E sw \in {"None", "True", "False"} :
              IF sw = "False"
                THEN /\ w_pc' = "stopped"
                     /\ pump' = run_pump_finally(w_dev, pump)
                     /\ UNCHANGED elapsed
                ELSE /\ \E ms \in SleepMs : elapsed' = elapsed + ms
                     /\ UNCHANGED <<w_pc, pump>>
       ELSE /\ w_pc' = "off"
            /\ pump' = run_pump_finally(w_dev, pump)
            /\ UNCHANGED elapsed
  /\ UNCHANGED <<dist, GPIO_OK, now, lock, ppc, windowVars,
                 boundaryVars,
                 pollVars,
                 hampelVars,
                 epc, filterVars, retryVars,
                 slotVars, w_dev>>
  /\ UNCHANGED <<pc, stdin, last_slot, cur_slot, ec_list, ph_list, tp_list,
                 i, rep, waitLeft, res, runs, rows, doses, turned_on,
                 stopSeen, aborted, row_err, dose_err, err_line>>

PumpNext ==
  \/ \E dev \in Pumps : run_pump_call(dev)
  \/ run_pump_wait

PumpInit == Init /\ now = FirstHour

PumpSpec == PumpInit /\ [][PumpNext]_vars

\* ----------------------------------------- hampel_accept on its own
\* The arguments of one call.  The history is built oldest value first: up
\* to HpStale copies of HpOld, then values of HpVals in non-decreasing order
\* (median and MAD sort their window, so the order inside the window does
\* not matter; what matters is which values are in it, and the stale values
\* are the ones that leave it).  Units of 0.005, as in the poller's filter.
HpOld == 220
HpVals == {200, 204, 220}
HpCandidates == {200, 202, 204, 212, 220, 2000}
HpStale == 2
MaxHp == HAMPEL_WIN + HpStale

hp_append(v) ==
  /\ hp_out = "none"
  /\ Len(hp_hist) < MaxHp
  /\ IF Len(hp_hist) <= HpStale /\ \A j \in 1..Len(hp_hist) : hp_hist[j] = HpOld
       THEN TRUE
       ELSE hp_hist[Len(hp_hist)] <= v
  /\ hp_hist' = Append(hp_hist, v)
  /\ UNCHANGED <<hp_x, hp_out>>
  /\ UNCHANGED <<dist, GPIO_OK, now, lock, ppc, windowVars,
                 boundaryVars,
                 pollVars,
                 epc, filterVars, retryVars,
                 slotVars, waitVars>>
  /\ UNCHANGED ctlVars

hampel_call(x) ==
  /\ hp_out = "none"
  /\ hp_x' = x
  /\ hp_out' = IF hampel_accept(x, hp_hist, HAMPEL_K) THEN "accept"
               ELSE "reject"
  /\ UNCHANGED hp_hist
  /\ UNCHANGED <<dist, GPIO_OK, now, lock, ppc, windowVars,
                 boundaryVars,
                 pollVars,
                 epc, filterVars, retryVars,
                 slotVars, waitVars>>
  /\ UNCHANGED ctlVars

HampelNext ==
  \/ \E v \in HpVals : hp_append(v)
  \/ \E x \in HpCandidates : hampel_call(x)

HampelSpec == FilterInit /\ [][HampelNext]_vars

\* ------------------------------ the main loops of the sensor pollers
\* sensors/Dist_1_EC_pH.py, sensors/room_condition.py and
\* sensors/Dist_2_EC_pH.py, one process on its own.  The clock pm_t is
\* datetime.now() of the running turn, in units of PRINT_EVERY_SEC; a turn
\* follows the last one after 10 s, or later when the read had to wait for the
\* lock or to retry.
PollerKinds == {"Dist_1", "room", "Dist_2"}

\* 23:19:50 of day 0, and the last instant explored, 00:01:50 of day 1
PollMinutes == 42
StartTick == (23 * 60 + 19) * 6 + 5
MaxTick == StartTick + PollMinutes * 6

\* turns to the next one: 10 s, 50 s, 19 min
TickSteps == {1, 5, 114}

tick_minute(t) == (t \div 6) % 60

\* minute_key(dt): "YYYY-MM-DD HH:MM", as <<day, hour, minute>>
minute_key(t) == <<t \div 8640, (t \div 360) % 24, tick_minute(t)>>

\* slot_key_for(dt, step_min)
slot_key_for(t, step_min) ==
  <<t \div 8640, (t \div 360) % 24, (tick_minute(t) \div step_min) * step_min>>

\* what a read returns: a complete sample, a sample with a missing value and
\* "value_missing" (room_condition only), or no value and an error
PmSamples == {<<1, 1, 1>>, <<2, 2, 2>>}

PmReads(k) ==
  {<<v[1], v[2], v[3], "none">> : v \in PmSamples}
    \cup {<<NoVal, NoVal, NoVal, "read_error">>}
    \cup (IF k = "room" THEN {<<2, 2, NoVal, "value_missing">>,
                              <<NoVal, 1, 1, "value_missing">>}
          ELSE {})

\* variant: the values of every read are kept
latest_update_any(l, rd) == <<rd[1], rd[2], rd[3]>>

\* "if err is None and ec is not None and ph is not None and tp is not None:
\*  latest_ec, latest_ph, latest_tp = ec, ph, tp"
latest_update(l, rd) ==
  IF rd[4] = "none" /\ rd[1] # NoVal /\ rd[2] # NoVal /\ rd[3] # NoVal
    THEN <<rd[1], rd[2], rd[3]>>
    ELSE l

\* "latest_err = None" in that branch, "else: latest_err = err"
latest_err_update(rd) ==
  IF rd[4] = "none" /\ rd[1] # NoVal /\ rd[2] # NoVal /\ rd[3] # NoVal
    THEN "none"
    ELSE rd[4]

\* variant: the minute is not tested
save_minute_any(t, every) == TRUE

\* "if now.minute % SAVE_EVERY_MIN == 0"
save_minute(t, every) == tick_minute(t) % every = 0

\* main() up to the loop
poller_start(k) ==
  /\ pm_kind = "none"
  /\ pm_kind' = k
  /\ pm_t' = StartTick
  /\ UNCHANGED <<pm_read, latest, latest_err, last_saved_slot,
                 last_json_minute, saved, pm_out>>
  /\ UNCHANGED <<dist, GPIO_OK, now, lock, ppc, windowVars,
                 boundaryVars,
                 epc, filterVars, retryVars,
                 slotVars, waitVars, hampelVars>>
  /\ UNCHANGED ctlVars

\* one turn of the loop of Dist_1_EC_pH.main / room_condition.main: the read,
\* the sticky values, the report, and the save of a boundary minute
latest_main(k) ==
  /\ pm_kind = k
  /\ \E d \in TickSteps, rd \in PmReads(k), ok \in BOOLEAN :
       LET t == pm_t + d
           l == latest_update(latest, rd)
           e == latest_err_update(rd)
           skey == slot_key_for(t, SAVE_EVERY_MIN)
           try == /\ save_minute(t, SAVE_EVERY_MIN)
                  /\ last_saved_slot # skey
                  /\ l[1] # NoVal /\ l[2] # NoVal /\ l[3] # NoVal
       IN  /\ t <= MaxTick
           /\ pm_t' = t
           /\ pm_read' = rd
           /\ latest' = l
           /\ latest_err' = e
           /\ saved' = IF try /\ ok THEN Append(saved, <<skey, l>>) ELSE saved
           /\ last_saved_slot' = IF try /\ ok THEN skey ELSE last_saved_slot
           /\ pm_out' = <<minute_key(t), l, e>>
  /\ UNCHANGED <<pm_kind, last_json_minute>>
  /\ UNCHANGED <<dist, GPIO_OK, now, lock, ppc, windowVars,
                 boundaryVars,
                 epc, filterVars, retryVars,
                 slotVars, waitVars, hampelVars>>
  /\ UNCHANGED ctlVars

\* the representatives after the filter has seen one more answer: each one
\* stays or takes a value, and one that has a value keeps having one (the
\* filter itself is FilterSpec)
S2_reps(r) ==
  {n \in {r, <<1, NoVal, 1>>, <<1, 1, NoVal>>, <<2, 2, 2>>} :
     \A c \in 1..3 : r[c] # NoVal => n[c] # NoVal}

\* one turn of the loop of Dist_2_EC_pH.main after the filter: the report of
\* every third minute and the CSV row of a boundary minute
S2_main ==
  /\ pm_kind = "Dist_2"
  /\ \E d \in TickSteps, r \in S2_reps(latest),
        e \in {"none", "read_error"}, ok \in BOOLEAN :
       LET t == pm_t + d
           mkey == minute_key(t)
           json == save_minute(t, JSON_EVERY_MIN) /\ last_json_minute # mkey
           csv == save_minute(t, CSV_EVERY_MIN) /\ last_saved_slot # mkey
           have == r[1] # NoVal /\ r[3] # NoVal
       IN  /\ t <= MaxTick
           /\ pm_t' = t
           /\ pm_read' = <<NoVal, NoVal, NoVal, e>>
           /\ latest' = r
           /\ latest_err' = e
           /\ pm_out' = IF json THEN <<mkey, r, e>> ELSE pm_out
           /\ last_json_minute' = IF json THEN mkey ELSE last_json_minute
           /\ saved' = IF csv /\ have /\ ok THEN Append(saved, <<mkey, r>>)
                       ELSE saved
           /\ last_saved_slot' = IF csv THEN mkey ELSE last_saved_slot
  /\ UNCHANGED pm_kind
  /\ UNCHANGED <<dist, GPIO_OK, now, lock, ppc, windowVars,
                 boundaryVars,
                 epc, filterVars, retryVars,
                 slotVars, waitVars, hampelVars>>
  /\ UNCHANGED ctlVars

PollerMainNext ==
  \/ \E k \in PollerKinds : poller_start(k)
  \/ latest_main("Dist_1")
  \/ latest_main("room")
  \/ S2_main

PollerMainSpec == FilterInit /\ [][PollerMainNext]_vars

\* ------------------------------------ sleep_to_next_boundary on its own
\* time.time() is a float: the model keeps it in quarter seconds.  The loop
\* that calls the function is started at any instant of the first two
\* periods; time.sleep returns on time or late, by a quarter second, by three
\* quarters, or by more than a whole period.
SbSteps == {PRINT_EVERY_SEC, 60}
SbLate == {0, 1, 3, 41}
SbSeconds == 130
MaxSbNow == 4 * SbSeconds

\* variant: the boundary at or before now
next_boundary_floor(nowq, step_sec) == ((nowq \div 4) \div step_sec) * step_sec

\* next_t = (int(now) // step_sec + 1) * step_sec
next_boundary(nowq, step_sec) == ((nowq \div 4) \div step_sec + 1) * step_sec

sb_start(step_sec) ==
  /\ sb_pc = "idle"
  /\ sb_pc' = "awake"
  /\ sb_step' = step_sec
  /\ sb_now' \in 0..(8 * PRINT_EVERY_SEC)
  /\ UNCHANGED sb_next
  /\ UNCHANGED <<dist, GPIO_OK, now, lock, ppc, windowVars,
                 epc, filterVars, retryVars,
                 slotVars, waitVars, hampelVars, pollVars>>
  /\ UNCHANGED ctlVars

\* the call up to time.sleep(max(0, next_t - now))
sleep_to_next_boundary ==
  /\ sb_pc = "awake"
  /\ sb_now <= MaxSbNow
  /\ sb_pc' = "asleep"
  /\ sb_next' = next_boundary(sb_now, sb_step)
  /\ UNCHANGED <<sb_step, sb_now>>
  /\ UNCHANGED <<dist, GPIO_OK, now, lock, ppc, windowVars,
                 epc, filterVars, retryVars,
                 slotVars, waitVars, hampelVars, pollVars>>
  /\ UNCHANGED ctlVars

\* time.sleep returns, and the caller's turn is over when the next call reads
\* the clock
sb_wake ==
  /\ sb_pc = "asleep"
  /\ sb_pc' = "awake"
  /\ \E late \in SbLate :
       sb_now' = sb_now + (IF 4 * sb_next - sb_now > 0
                             THEN 4 * sb_next - sb_now ELSE 0) + late
  /\ UNCHANGED <<sb_step, sb_next>>
  /\ UNCHANGED <<dist, GPIO_OK, now, lock, ppc, windowVars,
                 epc, filterVars, retryVars,
                 slotVars, waitVars, hampelVars, pollVars>>
  /\ UNCHANGED ctlVars

BoundaryNext ==
  \/ \E st \in SbSteps : sb_start(st)
  \/ sleep_to_next_boundary
  \/ sb_wake

BoundarySpec == FilterInit /\ [][BoundaryNext]_vars

\* ---------------------------------------------------------------------------
\* The time-window pump controllers (Dist_1_PumpController.py and
\* Dist_2_PumpController.py): one read of stdin at start-up, then a loop of
\* 5 s iterations that switches the pump by the minute of the hour.
\* The clock counts units of 5 s from the start of an hour.
\* ---------------------------------------------------------------------------

WindowKinds == {"Dist_1", "Dist_2"}

\* what a line on stdin can hold: the two commands and any other text
TwLines == {"true", "false", "other"}

\* minutes of wall clock the loop is followed for
TwMinutes == 38
\* the controller starts at hh:58:50
TwStart == (58 * 60 + 50) \div 5
MaxTw == TwStart + TwMinutes * 12
\* what passes between two reads of the clock: pause.seconds(5) alone, or
\* with the process held up for close to one minute or close to ten
TwSteps == {1, 11, 119}

tw_minute(t) == (t \div 12) % 60

\* now.strftime("%Y/%m/%d %H:%M"), as <<hour counted from the start, minute>>
tw_minute_key(t) == <<t \div 720, tw_minute(t)>>

\* read_payload(): None when select finds no line, else the line read
tw_read_payload(q) ==
  IF q = <<>> THEN "None"
  ELSE IF Head(q) = "true" THEN "True"
  ELSE IF Head(q) = "false" THEN "False"
  ELSE "None"

tw_rest(q) == IF q = <<>> THEN q ELSE Tail(q)

\* variant: the minute that ends a window also counts
tw_window_closed(k, m) ==
  IF k = "Dist_1"
    THEN (0 <= m /\ m <= 5) \/ (30 <= m /\ m <= 35)
    ELSE (0 <= m /\ m <= 2) \/ (20 <= m /\ m <= 22) \/ (40 <= m /\ m <= 42)

\* the time test of the loop on now.minute
tw_window(k, m) ==
  IF k = "Dist_1"
    THEN (0 <= m /\ m < 5) \/ (30 <= m /\ m < 35)
    ELSE (0 <= m /\ m < 2) \/ (20 <= m /\ m < 22) \/ (40 <= m /\ m < 42)

\* the interpreter starts the script: GPIO.setup, no command to the pump yet
tw_launch(k) ==
  /\ tw_pc = "idle"
  /\ tw_pc' = "start"
  /\ tw_kind' = k
  /\ tw_t' = TwStart
  /\ UNCHANGED <<tw_in, first_input, tw_now, tw_pump, last_on_minute, tw_rows>>
  /\ UNCHANGED <<dist, GPIO_OK, now, lock, ppc, epc, filterVars, retryVars,
                 slotVars, waitVars, hampelVars, pollVars, boundaryVars>>
  /\ UNCHANGED ctlVars

\* the host writes a line to the script's stdin
tw_host_send(l) ==
  /\ tw_pc \in {"start", "loop"}
  /\ Len(tw_in) < MaxQueue
  /\ tw_in' = Append(tw_in, l)
  /\ UNCHANGED <<tw_kind, tw_pc, first_input, tw_t, tw_now, tw_pump,
                 last_on_minute, tw_rows>>
  /\ UNCHANGED <<dist, GPIO_OK, now, lock, ppc, epc, filterVars, retryVars,
                 slotVars, waitVars, hampelVars, pollVars, boundaryVars>>
  /\ UNCHANGED ctlVars

\* first_input = read_payload() and the branch on it: the loop on False,
\* else the pump OFF, one line printed and, in the finally, GPIO.cleanup()
tw_first_read ==
  /\ tw_pc = "start"
  /\ first_input' = tw_read_payload(tw_in)
  /\ tw_in' = tw_rest(tw_in)
  /\ IF tw_read_payload(tw_in) = "False"
       THEN tw_pc' = "loop" /\ tw_pump' = tw_pump
       ELSE tw_pc' = "done" /\ tw_pump' = "OFF"
  /\ UNCHANGED <<tw_kind, tw_t, tw_now, last_on_minute, tw_rows>>
  /\ UNCHANGED <<dist, GPIO_OK, now, lock, ppc, epc, filterVars, retryVars,
                 slotVars, waitVars, hampelVars, pollVars, boundaryVars>>
  /\ UNCHANGED ctlVars

\* one iteration of the loop: the clock is read, then stdin; a True breaks
\* with the pump OFF; else the pump follows the time test, an On row is
\* written when the minute key is new, and pause.seconds(5) ends the iteration
tw_iteration(d) ==
  /\ tw_pc = "loop"
  /\ tw_t + d <= MaxTw
  /\ tw_now' = tw_t
  /\ tw_in' = tw_rest(tw_in)
  /\ IF tw_read_payload(tw_in) = "True"
       THEN /\ tw_pump' = "OFF"
            /\ tw_pc' = "done"
            /\ UNCHANGED <<tw_t, last_on_minute, tw_rows>>
       ELSE /\ tw_pc' = "loop"
            /\ tw_t' = tw_t + d
            /\ IF tw_window(tw_kind, tw_minute(tw_t))
                 THEN /\ tw_pump' = "ON"
                      /\ IF last_on_minute # tw_minute_key(tw_t)
                           THEN /\ tw_rows' = Append(tw_rows, tw_minute_key(tw_t))
                                /\ last_on_minute' = tw_minute_key(tw_t)
                           ELSE UNCHANGED <<last_on_minute, tw_rows>>
                 ELSE /\ tw_pump' = "OFF"
                      /\ UNCHANGED <<last_on_minute, tw_rows>>
  /\ UNCHANGED <<tw_kind, first_input>>
  /\ UNCHANGED <<dist, GPIO_OK, now, lock, ppc, epc, filterVars, retryVars,
                 slotVars, waitVars, hampelVars, pollVars, boundaryVars>>
  /\ UNCHANGED ctlVars

WindowNext ==
  \/ \E k \in WindowKinds : tw_launch(k)
  \/ \E l \in TwLines : tw_host_send(l)
  \/ tw_first_read
  \/ \E d \in TwSteps : tw_iteration(d)

WindowSpec == FilterInit /\ [][WindowNext]_vars

\* a long run of the poller on its own: during its bootstrap phase the EC
\* channel reports the steady level or the next step of a ramp (1.0, 2.0,
\* 3.0, 4.0, 5.0) and the steady level afterwards; the temperature channel
\* reports one first reading just above its steady level
S2_LongFrames ==
  {<<ec, S2_Steady[2], tp, FALSE>> :
     ec \in (IF Len(hist_ec) < Bootstrap
               THEN {S2_Steady[1], S2_Steady[1] * (Len(hist_ec) + 1)}
               ELSE {S2_Steady[1]}),
     tp \in (IF hist_tp = <<>> THEN {5004} ELSE {S2_Steady[3]})}

LongPoll == main_poll(S2_LongFrames, MaxLong)

LongSpec == FilterInit /\ [][LongPoll]_vars

\* the controller's steps are taken as long as they can be (a single-threaded
\* polling loop with finite sleeps); every holder of the lock file leaves its
\* exchange (bounded retries); a controller blocked in flock gets the lock
\* once it is free often enough: the pollers sleep to the next 10 s boundary
\* between two requests.
LiveSpec ==
  /\ Spec
  /\ WF_vars(CtlRun)
  /\ SF_vars(CtlLock)
  /\ WF_vars(\E q \in Pollers : PollerRead(q))

\* ------------------------------------------------------------ the claims
\* the host's lines, by meaning
RunLine == IF dist = 1 THEN "true" ELSE "false"
StopLine == IF dist = 1 THEN "false" ELSE "true"
StopPending == \E j \in 1..Len(stdin) : stdin[j] = StopLine
LineRead == stdin # <<>> /\ stdin' = Tail(stdin)

\* the last command issued for pump p is OFF (Dist_1 without GPIO issues none)
PumpOff(p) == pump[p] = "OFF" \/ (~GPIO_OK /\ pump[p] = "NONE")
PumpsOff == \A p \in Pumps : PumpOff(p)

EC_MIN == IF dist = 1 THEN D1_EC_MIN ELSE D2_EC_MIN
PH_MAX == IF dist = 1 THEN D1_PH_MAX ELSE D2_PH_MAX

\* the cycle that last ran ended OK / has got past the EC rule
CycleOK == pc = "running" /\ res = "OK"
PastECRule == pc \in {"check_ph", "pump_Acid"} \/ CycleOK

InExchange(p) ==
  IF p = "ctl" THEN pc \in {"avg_xchg", "read_xchg"} ELSE ppc[p] = "xchg"

\* the controller is inside the function that holds the lock
InLockedSection ==
  IF dist = 1
    THEN pc \in {"avg_poll", "avg_xchg", "log", "check_ec", "check_ph",
                 "pump_AB", "pump_Acid"}
    ELSE pc \in {"read_poll", "read_xchg"}

\* C1: at most one control cycle is started per distinct slot key
C1_OncePerSlot == \A k \in SlotKeys : runs[k] <= 1

C1_Witness ==
  /\ pc = "running" /\ slot_of(now) = cur_slot /\ res \in {"OK", "FAIL"}
  /\ Cardinality({k \in SlotKeys : runs[k] = 1}) >= 2

\* C2: at most one process sharing the lock file is inside a transport exchange
C2_OneExchange == Cardinality({p \in {"ctl"} \cup Pollers : InExchange(p)}) <= 1

C2_Witness ==
  /\ dist = 2 /\ pc = "read_xchg" /\ i = 1
  /\ \A q \in Pollers : ppc[q] = "lockwait"

\* C3: a process that has left its locked section (returned OK, FAIL or STOP,
\* or after an exception raised inside it) does not hold the lock
C3_LockReleased ==
  /\ ~InLockedSection => lock # "ctl"
  /\ \A q \in Pollers : ppc[q] # "xchg" => lock # q

C3_Witness == dist = 1 /\ stopSeen = "pump" /\ res = "STOP" /\ lock = "none"

\* C4: a STOP read during a pump's timed wait ends the wait at that poll with
\* both pumps OFF, the cycle returning STOP, the controller out of RUNNING and
\* no dose record for the interrupted pump
C4_StopDuringPump ==
  aborted # "none" =>
    /\ stopSeen = "pump"
    /\ \A p \in Pumps : pump[p] = "OFF"
    /\ res = "STOP"
    /\ ctlState = "STOPPED"
    /\ \A j \in 1..Len(doses) : doses[j] # aborted

C4_Witness == aborted = "Acid" /\ doses = <<"AB">>

\* C5: once STOP has been observed while RUNNING the controller is stopped with
\* its pumps OFF, and from then on no cycle starts, no sensor read is issued and
\* no pump is commanded
C5_StoppedIsFinal ==
  /\ [](stopSeen # "no" => (ctlState = "STOPPED" /\ PumpsOff))
  /\ [][stopSeen # "no" =>
          /\ runs' = runs
          /\ ~InExchange("ctl")'
          /\ pump' = pump
          /\ pc' = "done"]_vars

C5_Witness == stopSeen = "main" /\ turned_on = Pumps /\ PumpsOff

\* C6 as stated: from WAITING_FOR_START a RUN line leads to RUNNING, a STOP
\* line to STOPPED, and anything else stays, in both variants
C6_Original ==
  [][pc = "waiting" =>
       IF LineRead
         THEN /\ Head(stdin) = RunLine => ctlState' = "RUNNING"
              /\ Head(stdin) = StopLine => ctlState' = "STOPPED"
         ELSE ctlState' = "WAITING_FOR_START"]_vars

\* C6 amended: as stated for Dist_1; in Dist_2 a STOP line read while waiting is
\* dropped and the controller stays in WAITING_FOR_START
C6_WaitingTransitions ==
  [][pc = "waiting" =>
       IF LineRead
         THEN /\ Head(stdin) = RunLine => ctlState' = "RUNNING"
              /\ Head(stdin) = StopLine =>
                   ctlState' = (IF dist = 1 THEN "STOPPED" ELSE "WAITING_FOR_START")
         ELSE ctlState' = "WAITING_FOR_START"]_vars

C6_Witness == dist = 1 /\ ctlState = "STOPPED" /\ stopSeen = "no" /\ PumpsOff

\* C7: a STOP line delivered while RUNNING leads to STOPPED with both pumps OFF
C7_StopLeadsToStopped ==
  (ctlState = "RUNNING" /\ StopPending) ~> (ctlState = "STOPPED" /\ PumpsOff)

C7_Witness == pc = "lockwait" /\ lock \in Pollers /\ StopPending

\* C8 as stated: a cycle past its EC rule has dosed AB iff EC <= EC_MIN
C8_Original == PastECRule => ("AB" \in turned_on <=> rep[1] <= EC_MIN)

\* C8 amended: Dist_2 doses AB iff EC <= EC_MIN, Dist_1 iff EC < EC_MIN
C8_DoseABRule ==
  /\ PastECRule =>
       ("AB" \in turned_on <=>
          IF dist = 1 THEN rep[1] < D1_EC_MIN ELSE rep[1] <= D2_EC_MIN)
  /\ "AB" \in turned_on =>
       IF dist = 1 THEN rep[1] < D1_EC_MIN ELSE rep[1] <= D2_EC_MIN

C8_Witness == dist = 1 /\ CycleOK /\ rep[1] = D1_EC_MIN /\ "AB" \notin turned_on

\* C9: in a cycle that ends OK, Acid is dosed iff pH is present and >= PH_MAX,
\* whatever AB did, and the dose records are those of the pumps that ran
C9_DoseAcidRule ==
  CycleOK =>
    LET acidDue == rep[2] # NoVal /\ rep[2] >= PH_MAX
    IN  /\ "Acid" \in turned_on <=> acidDue
        /\ doses = (IF "AB" \in turned_on THEN <<"AB">> ELSE <<>>)
                     \o (IF acidDue THEN <<"Acid">> ELSE <<>>)

C9_Witness == CycleOK /\ doses = <<"AB", "Acid">> /\ rep[2] = PH_MAX

\* C10: a cycle whose acquisition failed commands no pump ON, writes no sensor
\* row and no dose record, marks the slot as run, and the next cycle starts
\* only under another slot key
C10_FailMarksSlot ==
  /\ []((pc = "running" /\ res = "FAIL" /\ rep[1] = NoVal) =>
          /\ turned_on = {} /\ rows = 0 /\ doses = <<>>
          /\ \A p \in Pumps : pump[p] # "ON"
          /\ last_slot = cur_slot)
  /\ [][(pc = "running" /\ res = "FAIL" /\ rep[1] = NoVal /\ runs' # runs) =>
          cur_slot' # cur_slot]_vars

C10_Witness ==
  /\ pc = "running" /\ res = "FAIL" /\ rep[1] = NoVal
  /\ slot_of(now) = cur_slot /\ stdin = <<>>

\* the cycle has got past the sensor-row write
AfterLog == pc \in {"check_ec", "check_ph", "pump_AB", "pump_Acid"} \/ CycleOK

Dosing == pc \in {"log", "check_ec", "check_ph", "pump_AB", "pump_Acid"}

\* C12 as stated: in both controllers no pump is ON and no record is written
\* while the controller does not hold the bus lock
C12_Original ==
  /\ Dosing => lock = "ctl"
  /\ (\E p \in Pumps : pump[p] = "ON") => lock = "ctl"

\* C12: Dist_1 holds the lock from the start of the cycle until dosing and
\* persistence are done; Dist_2 holds it during the acquisition only and has
\* released it before the sensor row is written and before any pump is ON
C12_LockScope ==
  /\ dist = 1 => C12_Original
  /\ dist = 2 => /\ pc \in {"read_poll", "read_xchg"} => lock = "ctl"
                 /\ Dosing => lock # "ctl"
                 /\ (\E p \in Pumps : pump[p] = "ON") => lock # "ctl"

C12_Witness == dist = 2 /\ pump["AB"] = "ON" /\ rows = 1 /\ lock = "sensor"

\* C13: every process that is inside a transport exchange on a deployment's
\* sensor port holds that deployment's lock
C13_ExchangeUnderLock ==
  /\ \A p \in {"ctl"} \cup Pollers : InExchange(p) => lock = p
  /\ epc = "xchg" => lock = "ecph"

\* the three channels of the Dist_2 poller, indexed 1 = EC, 2 = pH, 3 = temp
S2_hist(c) == <<hist_ec, hist_ph, hist_tp>>[c]

S2_rep(c) == <<rep_ec, rep_ph, rep_tp>>[c]

S2_pend(c) == <<pend_ec, pend_ph, pend_tp>>[c]

S2_band(c) == <<EC_BAND_ABS, PH_BAND_ABS, TP_BAND_ABS>>[c]

\* x lies in the poller's physical band of channel c
S2_InRange(c, x) ==
  /\ x # NoVal
  /\ <<S2_VALID_EC_MIN, S2_VALID_PH_MIN, S2_VALID_TP_MIN>>[c] <= x
  /\ x <= <<S2_VALID_EC_MAX, S2_VALID_PH_MAX, S2_VALID_TP_MAX>>[c]

\* x lies in the Dist_2 controller's physical band of channel c
D2_InRange(c, x) ==
  /\ x # NoVal
  /\ <<D2_VALID_EC_MIN, D2_VALID_PH_MIN, D2_VALID_TP_MIN>>[c] <= x
  /\ x <= <<D2_VALID_EC_MAX, D2_VALID_PH_MAX, D2_VALID_TP_MAX>>[c]

D2_list(c) == <<ec_list, ph_list, tp_list>>[c]

\* a step of the poller that answered with three channel values
PollStep == i' = i /\ frame' # NoFrame /\ ~frame'[4]

\* a step of the controller's sampling loop that answered with values
SampleStep == i' = i + 1 /\ ~frame'[4]

\* C14: a channel value outside the channel's physical band changes neither
\* the channel's representative nor its history nor its pending buffer, and
\* the median-of-3 sampler does not count it as a sample
C14_OutOfBandIgnored ==
  [][\A c \in 1..3 :
       /\ (PollStep /\ frame'[c] # NoVal /\ ~S2_InRange(c, frame'[c])) =>
            /\ S2_hist(c)' = S2_hist(c)
            /\ S2_rep(c)' = S2_rep(c)
            /\ S2_pend(c)' = S2_pend(c)
       /\ (SampleStep /\ frame'[c] # NoVal /\ ~D2_InRange(c, frame'[c])) =>
            D2_list(c)' = D2_list(c)]_vars

C14_Witness ==
  /\ i = 0 /\ frame # NoFrame /\ ~frame[4]
  /\ frame[1] # NoVal /\ ~S2_InRange(1, frame[1])
  /\ rep_ec = S2_Steady[1] /\ Len(hist_ec) >= 1
  /\ Len(hist_ec) < Len(hist_tp)

\* the Hampel test of history h on candidate x, in the spec's terms
\* (doubled medians, so that the median of two readings is an integer)
HistMedian2(h) == median2(last(h, HAMPEL_WIN))

HistMad4(h) == mad4(last(h, HAMPEL_WIN), HistMedian2(h))

HampelOutlier(h, x) ==
  /\ Len(h) >= Bootstrap
  /\ HistMad4(h) > 0
  /\ 20000 * abs(2 * x - HistMedian2(h)) > HAMPEL_K * 14826 * HistMad4(h)

HampelPass(h, x) ==
  \/ Len(h) < Bootstrap
  \/ /\ HistMad4(h) = 0
     /\ 2 * x = HistMedian2(h)
  \/ /\ HistMad4(h) > 0
     /\ ~HampelOutlier(h, x)

\* the pH value of the answer is absent, out of range or was left out of
\* the pH history as an outlier
BadPH ==
  \/ ~S2_InRange(2, frame'[2])
  \/ hist_ph' = hist_ph

\* C15: a bad pH value does not keep a valid EC or temperature value of the
\* same answer from being accepted into its history (poller) or counted as a
\* sample (controller)
C15_ChannelsIndependent ==
  [][/\ (PollStep /\ BadPH) =>
          \A c \in {1, 3} :
            (S2_InRange(c, frame'[c]) /\ HampelPass(S2_hist(c), frame'[c])) =>
              S2_hist(c)' = Append(S2_hist(c), frame'[c])
     /\ (SampleStep /\ ~D2_InRange(2, frame'[2])) =>
          \A c \in {1, 3} :
            D2_InRange(c, frame'[c]) =>
              D2_list(c)' = Append(D2_list(c), frame'[c])]_vars

C15_Witness ==
  /\ i = 0 /\ frame # NoFrame /\ ~frame[4]
  /\ S2_InRange(2, frame[2]) /\ frame[2] # S2_Steady[2]
  /\ Len(hist_ph) >= Bootstrap /\ Steady(hist_ph, S2_Steady[2])
  /\ Len(hist_ec) = Len(hist_ph) + 1
  /\ Len(hist_tp) = Len(hist_ph) + 1

\* C16: past the bootstrap phase and with sigma > 0, a candidate further
\* than k * sigma from the history's median does not become the
\* representative in the step that processes it
C16_OutlierNotPromoted ==
  [][\A c \in 1..3 :
       (PollStep /\ S2_InRange(c, frame'[c])
          /\ HampelOutlier(S2_hist(c), frame'[c])) =>
         S2_rep(c)' = S2_rep(c)]_vars

C16_Witness ==
  /\ i = 0 /\ frame # NoFrame /\ ~frame[4]
  /\ S2_InRange(3, frame[3])
  /\ HampelOutlier(hist_tp, frame[3])
  /\ Len(hist_tp) < Len(hist_ec)
  /\ rep_tp # NoVal /\ rep_tp # frame[3]

\* value x occurs in sequence s
Occurs(s, x) == \E j \in 1..Len(s) : s[j] = x

\* C17 as stated: an in-range candidate that the Hampel test rejects is put
\* into the channel's pending buffer (or promoted from it in the same step)
C17_RejectedGoesToPending ==
  [][\A c \in 1..3 :
       (PollStep /\ S2_InRange(c, frame'[c])
          /\ ~HampelPass(S2_hist(c), frame'[c])) =>
         \/ Occurs(S2_pend(c)', frame'[c])
         \/ S2_rep(c)' # S2_rep(c)]_vars

\* the bootstrap phase of channel c was filled with the steady value only
SteadyBootstrap(c) ==
  /\ Len(S2_hist(c)) >= Bootstrap
  /\ Steady(SubSeq(S2_hist(c), 1, Bootstrap), S2_Steady[c])

\* C18 as stated: after a bootstrap phase of steady values, once the sensor
\* has reported the same new in-range value CONFIRM_M times in a row the
\* representative lies within the channel's band of that value
C18_StepChangeAdopted ==
  \A c \in 1..3 :
    (/\ i = 0 /\ frame # NoFrame /\ ~frame[4]
     /\ streak >= CONFIRM_M
     /\ S2_InRange(c, frame[c]) /\ frame[c] # S2_Steady[c]
     /\ SteadyBootstrap(c)) =>
      /\ S2_rep(c) # NoVal
      /\ abs(S2_rep(c) - frame[c]) <= S2_band(c)

\* the values of s at the positions in S, in order
SubAt(s, S) ==
  LET F[k \in 0..Len(s)] ==
        IF k = 0 THEN <<>>
        ELSE IF k \in S THEN Append(F[k - 1], s[k]) ELSE F[k - 1]
  IN F[Len(s)]

\* at least CONFIRM_M positions of s whose values lie within band of each other
Agreeing(s, band) ==
  {S \in SUBSET (1..Len(s)) :
     /\ Cardinality(S) >= CONFIRM_M
     /\ \A a, b \in S : abs(s[a] - s[b]) <= band}

\* C19 as stated: in the pending case the representative changes only when
\* at least M pending values lie within the band of each other; it is then
\* their median and pending is cleared; otherwise it is unchanged
C19_PromoteOnlyAgreeing ==
  [][\A c \in 1..3 :
       (/\ PollStep /\ S2_InRange(c, frame'[c])
        /\ S2_hist(c)' # S2_hist(c)
        /\ S2_rep(c) # NoVal
        /\ abs(frame'[c] - S2_rep(c)) > S2_band(c)) =>
         LET pl == last(Append(S2_pend(c), frame'[c]), CONFIRM_N)
         IN IF Agreeing(pl, S2_band(c)) = {}
              THEN S2_rep(c)' = S2_rep(c)
              ELSE /\ S2_pend(c)' = <<>>
                   /\ \E S \in Agreeing(pl, S2_band(c)) :
                        2 * S2_rep(c)' = median2(SubAt(pl, S))]_vars

\* C20 as stated: a candidate that passes the Hampel test (bootstrap phase
\* included) is appended to the history and is the representative after
\* the same step
C20_AcceptedBecomesRep ==
  [][\A c \in 1..3 :
       (PollStep /\ S2_InRange(c, frame'[c])
          /\ HampelPass(S2_hist(c), frame'[c])) =>
         /\ S2_hist(c)' = Append(S2_hist(c), frame'[c])
         /\ S2_rep(c)' = frame'[c]]_vars

\* a poll leaves a channel's history alone or appends the polled value, which
\* is in range and passes the Hampel test, dropping the oldest beyond cap
HistStep(cap) ==
  \A c \in 1..3 :
    PollStep =>
      \/ S2_hist(c)' = S2_hist(c)
      \/ /\ S2_InRange(c, frame'[c])
         /\ HampelPass(S2_hist(c), frame'[c])
         /\ S2_hist(c)' = last(Append(S2_hist(c), frame'[c]), cap)

\* C21 as stated: a history never holds more than HAMPEL_WIN values
C21_Original ==
  /\ [](\A c \in 1..3 : /\ Len(S2_hist(c)) <= HAMPEL_WIN
                        /\ Len(S2_pend(c)) <= CONFIRM_N)
  /\ [][HistStep(HAMPEL_WIN)]_vars

\* C21: a history holds only Hampel-accepted values in arrival order, at most
\* 3 * HAMPEL_WIN of them, the oldest being evicted first (the Hampel test
\* reads the last HAMPEL_WIN of them), and a pending buffer at most CONFIRM_N
C21_HistoryBounded ==
  /\ [](\A c \in 1..3 : /\ Len(S2_hist(c)) <= 3 * HAMPEL_WIN
                        /\ Len(S2_pend(c)) <= CONFIRM_N)
  /\ [][HistStep(3 * HAMPEL_WIN)]_vars

C21_Witness ==
  /\ Len(hist_tp) = 3 * HAMPEL_WIN
  /\ Steady(hist_tp, S2_Steady[3])
  /\ Len(hist_ec) > HAMPEL_WIN

\* C22 as stated: read_representative_3 returns a representative of a
\* channel only when the channel has at least 2 valid samples; with fewer
\* than 2 valid EC or temperature samples it returns FAIL with no values
C22_TwoValidSamples ==
  res # "NONE" =>
    /\ (Len(ec_list) < 2 \/ Len(tp_list) < 2) =>
         (res = "FAIL" /\ rep = <<NoVal, NoVal, NoVal>>)
    /\ \A c \in 1..3 : Len(D2_list(c)) < 2 => rep[c] = NoVal

\* the three requests returned EC 1.10, 1.12 and 0.0, in this order
Scenario2 ==
  /\ i = D2_READ_N /\ ~frame[4] /\ frame[1] = 0
  /\ Len(ec_list) >= 2 /\ SubSeq(ec_list, 1, 2) = <<110, 112>>

\* C23 as stated: of the EC samples 1.10, 1.12, 0.0 only 1.10 and 1.12
\* count and the representative is 1.11
C23_Original ==
  Scenario2 =>
    /\ ec_list = <<110, 112>>
    /\ res = "OK" => rep[1] = 111

\* C23: the band [0.0, 3.0] includes its lower edge, so of the EC samples
\* 1.10, 1.12, 0.0 all three count and the representative is their median 1.10
C23_ZeroCounts ==
  Scenario2 =>
    /\ ec_list = <<110, 112, 0>>
    /\ res = "OK" => rep[1] = 110

C23_Witness == Scenario2 /\ res = "OK" /\ rep[1] = 110

\* attempts of the running call that did not yield a value
FailedTries == {j \in 1..Len(tries) : tries[j] # "value"}

\* C24 as stated: a call makes at most RETRY_ATTEMPTS attempts, returns at the
\* first one that yields a value, fails only after all of them have failed,
\* and has slept the inter-attempt delay once per failed attempt
C24_RetryBudget ==
  /\ Len(tries) <= RETRY_ATTEMPTS
  /\ \A j \in 1..Len(tries) : tries[j] = "value" => j = Len(tries)
  /\ rq_pc = "ok" <=> (tries # <<>> /\ tries[Len(tries)] = "value")
  /\ rq_pc = "err" <=>
       (Len(tries) = RETRY_ATTEMPTS /\ Cardinality(FailedTries) = RETRY_ATTEMPTS)
  /\ delays = Cardinality(FailedTries)

\* the length of a cadence interval in minutes, and the interval of an instant
Cadence == IF sl_mode = "30min" THEN 30 ELSE IF sl_mode = "1hour" THEN 60 ELSE 240

IntervalOf(t) == <<t[1], t[2] \div Cadence>>

Earlier(x, y) == x[1] < y[1] \/ (x[1] = y[1] /\ x[2] < y[2])

\* x < y for two keys of the same mode, as Python compares the strings
KeyLess(x, y) ==
  \E j \in 1..Len(x) : x[j] < y[j] /\ \A k \in 1..(j - 1) : x[k] = y[k]

\* C25: two instants have the same slot key iff they lie in the same cadence
\* interval of the same day, and a later interval has a greater key
C25_SlotKeyIsFloor ==
  (key_a # NoSlot /\ key_b # NoSlot) =>
    /\ key_a = key_b <=> IntervalOf(sl_a) = IntervalOf(sl_b)
    /\ Earlier(IntervalOf(sl_a), IntervalOf(sl_b)) => KeyLess(key_a, key_b)

C25_Witness ==
  /\ key_a # NoSlot /\ key_a = key_b /\ sl_a # sl_b /\ sl_mode = "30min"

\* the controller is at the stop check that precedes a sub-read
AtAcqPoll == pc \in {"avg_poll", "read_poll"}

\* C26: a sub-read is issued only from the stop check before it, and only
\* when that check read no STOP; a STOP read there ends the cycle at once with
\* STOP: no further sub-read, no sensor row, no pump turned on
C26_StopDuringAcquisition ==
  /\ [][(InExchange("ctl")' /\ ~InExchange("ctl")) =>
          (AtAcqPoll /\ ~(stdin # <<>> /\ Head(stdin) = StopLine))]_vars
  /\ [][(AtAcqPoll /\ LineRead /\ Head(stdin) = StopLine) =>
          /\ res' = "STOP" /\ stopSeen' = "acq"
          /\ ctlState' = "STOPPED"
          /\ rows' = 0 /\ turned_on' = {} /\ doses' = <<>>]_vars
  /\ [](stopSeen = "acq" =>
          /\ ~InExchange("ctl")
          /\ rows = 0 /\ turned_on = {} /\ PumpsOff)

C26_Witness ==
  /\ stopSeen = "acq" /\ res = "STOP" /\ pc = "done"
  /\ rows = 0 /\ turned_on = {} /\ lock # "ctl"

\* a cycle began and the process ended before the cycle had a result: an
\* exception left the cycle
Crashed == pc = "done" /\ res = "NONE" /\ \E k \in SlotKeys : runs[k] > 0

\* C27: whichever way the main loop is left (STOP between cycles, a cycle
\* that returned STOP, an exception leaving a cycle), the step that ends the
\* process commands both pumps OFF, and they are OFF once it has ended
C27_OffOnEveryExit ==
  /\ [][(pc # "done" /\ pc' = "done") =>
          /\ PumpsOff'
          /\ \A x \in Pumps : pump'[x] # "ON"]_vars
  /\ [](pc = "done" => PumpsOff /\ waitLeft = 0)

C27_Witness == Crashed /\ GPIO_OK /\ PumpsOff /\ stopSeen = "no"

\* a record of the current cycle could not be written
WriteFailed == row_err \/ dose_err # "none"

\* the cycle has returned to the main loop
CycleReturned == pc \in {"running", "done"} /\ res # "NONE"

\* C28: a sensor row or dose row that cannot be written is reported by a line
\* on the telemetry stream, does not end the process, and the cycle returns
\* with the bus lock released and both pumps OFF
C28_WriteFailureReported ==
  WriteFailed =>
    /\ err_line
    /\ (pc = "done" => stopSeen # "no")
    /\ (CycleReturned => lock # "ctl" /\ PumpsOff)

\* the dose records of pump dev in the current cycle
DoseCount(dev) == Cardinality({k \in 1..Len(doses) : doses[k] = dev})

\* the controller is in the timed wait of run_pump(dev)
InWait(dev) == pc = (IF dev = "AB" THEN "pump_AB" ELSE "pump_Acid")

\* run_pump(dev) was called in this cycle and its wait ran to the end
RunCompleted(dev) == dev \in turned_on /\ ~InWait(dev) /\ aborted # dev

DurationReached == elapsed * PUMP_ML_PER_SEC >= DOSE_ML * 100000

\* C30: while no STOP line is read the pump stays ON until DOSE_ML /
\* PUMP_ML_PER_SEC seconds have passed since it was switched on, the polls
\* being at least 50 ms apart, and the first poll that finds the duration
\* reached switches it off
C30_PumpRunsFullDuration ==
  /\ [](w_pc = "waiting" => pump[w_dev] = "ON")
  /\ [](w_pc = "off" => DurationReached /\ pump[w_dev] = "OFF")
  /\ [][(w_pc = "waiting" /\ pump'[w_dev] # "ON" /\ w_pc' # "stopped")
          => DurationReached]_vars
  /\ [][(w_pc = "waiting" /\ w_pc' = "waiting")
          => ~DurationReached /\ elapsed' >= elapsed + 50]_vars
  /\ [][(w_pc = "waiting" /\ DurationReached)
          => w_pc' = "off" /\ pump'[w_dev] = "OFF"]_vars

C30_Witness ==
  /\ w_pc = "off" /\ dist = 2 /\ w_dev = "Acid" /\ pump["Acid"] = "OFF"
  /\ elapsed = 30400

\* the most recent HAMPEL_WIN values of the call's history
HpWindow ==
  [j \in 1..(IF Len(hp_hist) < HAMPEL_WIN THEN Len(hp_hist) ELSE HAMPEL_WIN) |->
     hp_hist[Len(hp_hist) - (IF Len(hp_hist) < HAMPEL_WIN THEN Len(hp_hist)
                             ELSE HAMPEL_WIN) + j]]

\* the k-th smallest value of w, by counting
Kth(w, k) ==
  CHOOSE v \in {w[j] : j \in 1..Len(w)} :
    /\ Cardinality({j \in 1..Len(w) : w[j] < v}) < k
    /\ k <= Cardinality({j \in 1..Len(w) : w[j] <= v})

\* twice the median of w
Med2(w) ==
  IF Len(w) % 2 = 1 THEN 2 * Kth(w, (Len(w) + 1) \div 2)
  ELSE Kth(w, Len(w) \div 2) + Kth(w, Len(w) \div 2 + 1)

\* four times the median absolute deviation of the window
HpMad4 == Med2([j \in 1..Len(HpWindow) |-> abs(2 * HpWindow[j] - Med2(HpWindow))])

\* |H| < max(5, W/3), W/3 taken as a fraction
HpBootstrap == Len(hp_hist) < 5 \/ 3 * Len(hp_hist) < HAMPEL_WIN

\* C31: hampel_accept(x, H) accepts exactly when |H| < max(5, W/3), or
\* sigma = 0 and x is the median, or sigma > 0 and |x - median| <= k * sigma,
\* median and sigma = 1.4826 * MAD being those of the last W values of H
C31_HampelDecision ==
  hp_out # "none" =>
    (hp_out = "accept" <=>
       \/ HpBootstrap
       \/ /\ ~HpBootstrap /\ HpMad4 = 0
          /\ 2 * hp_x = Med2(HpWindow)
       \/ /\ ~HpBootstrap /\ HpMad4 > 0
          /\ 20000 * abs(2 * hp_x - Med2(HpWindow)) <= HAMPEL_K * 14826 * HpMad4)

C31_Witness ==
  /\ hp_out = "reject" /\ Len(hp_hist) = MaxHp
  /\ hp_hist[1] = HpOld /\ hp_hist[HpStale + 1] < HpOld
  /\ HpMad4 = 0 /\ hp_x = HpOld

\* the minute of the hour of the poller's running turn
TurnMinute == (pm_t \div 6) % 60

\* C32: a poller saves a record only in a turn whose minute is 00, 20 or 40,
\* under the key of that minute, and no two saved records have the same key
C32_SavedOncePerSlot ==
  /\ [][saved' # saved =>
          /\ TurnMinute' \in {0, 20, 40}
          /\ Len(saved') = Len(saved) + 1
          /\ SubSeq(saved', 1, Len(saved)) = saved
          /\ saved'[Len(saved')][1] =
               <<pm_t' \div (6 * 60 * 24), (pm_t' \div (6 * 60)) % 24,
                 TurnMinute'>>]_vars
  /\ [](\A a, b \in 1..Len(saved) : saved[a][1] = saved[b][1] => a = b)

C32_Witness ==
  /\ Len(saved) = 3
  /\ saved[1][1] = <<0, 23, 20>> /\ saved[3][1] = <<1, 0, 0>>
  /\ TurnMinute = 0 /\ pm_t % 6 > 1

\* the read of the running turn returned three values and no error
GoodRead(rd) == rd[4] = "none" /\ \A c \in 1..3 : rd[c] # NoVal

\* C33: in the Dist_1 and room pollers a read that failed or lacks a value
\* leaves the last good values as they are and only records its error, the
\* values reported and saved in a turn are those last good values, and nothing
\* is saved before the first good read
C33_StickyValues ==
  /\ [][(pm_kind \in {"Dist_1", "room"} /\ pm_t' # pm_t) =>
          /\ IF GoodRead(pm_read')
               THEN /\ latest' = <<pm_read'[1], pm_read'[2], pm_read'[3]>>
                    /\ latest_err' = "none"
               ELSE /\ latest' = latest
                    /\ latest_err' = pm_read'[4]
          /\ pm_out'[2] = latest'
          /\ (saved' # saved => saved'[Len(saved')][2] = latest')]_vars
  /\ [](pm_kind \in {"Dist_1", "room"} =>
          /\ latest \in PmSamples \cup {<<NoVal, NoVal, NoVal>>}
          /\ (latest = <<NoVal, NoVal, NoVal>> => saved = <<>>)
          /\ \A a \in 1..Len(saved) : saved[a][2] \in PmSamples)

C33_Witness ==
  /\ pm_kind = "room"
  /\ pm_read = <<2, 2, NoVal, "value_missing">>
  /\ latest = <<1, 1, 1>> /\ latest_err = "value_missing"
  /\ pm_out[2] = <<1, 1, 1>>
  /\ saved # <<>> /\ saved[Len(saved)] = <<<<0, 23, 40>>, <<1, 1, 1>>>>
  /\ TurnMinute = 40 /\ last_saved_slot = <<0, 23, 40>>

\* C34: the target of sleep_to_next_boundary(step) is the smallest multiple of
\* step above the whole seconds of the current time; it is later than the
\* current time and at most step seconds later; and a wake-up that is late by
\* less than a period is followed by the very next boundary, so that lateness
\* is not carried from one poll to the next
C34_NextBoundary ==
  /\ [](sb_pc = "asleep" =>
          /\ sb_next % sb_step = 0
          /\ sb_next > sb_now \div 4
          /\ sb_next - sb_step <= sb_now \div 4
          /\ 4 * sb_next > sb_now
          /\ 4 * sb_next - sb_now <= 4 * sb_step)
  /\ [][(sb_pc = "awake" /\ sb_pc' = "asleep" /\ sb_next # NoVal) =>
          /\ sb_next' > sb_next
          /\ (sb_next' - sb_next) % sb_step = 0
          /\ (sb_now - 4 * sb_next < 4 * sb_step
                => sb_next' = sb_next + sb_step)]_vars

C34_Witness ==
  /\ sb_pc = "asleep" /\ sb_step = PRINT_EVERY_SEC
  /\ sb_now = 4 * 30 + 3 /\ sb_next = 40

\* C35: the two pumps are never ON together, Acid is switched on only while
\* AB is OFF, and a pump is ON only inside the timed wait of its own run_pump
\* call, which is inside a control cycle
C35_OnePumpAtATime ==
  /\ [](~(pump["AB"] = "ON" /\ pump["Acid"] = "ON"))
  /\ [](\A dev \in Pumps : pump[dev] = "ON" =>
          /\ InWait(dev)
          /\ res = "NONE" /\ cur_slot # NoSlot
          /\ dev \in turned_on)
  /\ [][(pump["Acid"] # "ON" /\ pump'["Acid"] = "ON") =>
          /\ pump["AB"] = "OFF" /\ pump'["AB"] = "OFF"
          /\ pc = "check_ph"]_vars

C35_Witness ==
  /\ pump["Acid"] = "ON" /\ pump["AB"] = "OFF"
  /\ turned_on = {"AB", "Acid"} /\ doses = <<"AB">>

\* the line the controller reads at its next poll is a STOP
StopAtHead == stdin # <<>> /\ Head(stdin) = StopLine

\* the slot key of the wall clock: the day and the hour floored to four
Key4h == <<now \div 24, (now % 24) - ((now % 24) % 4)>>

\* C36: in the Dist_2 controller RUN leaves last_run_slot at None, so that the
\* first poll of the main loop starts a cycle at whatever hour of the slot; and
\* a poll that reads no STOP starts a cycle exactly when the slot key of the
\* wall clock differs from last_run_slot, under that key
C36_CycleOnSlotChange ==
  /\ [][(dist = 2 /\ pc = "waiting" /\ pc' = "running")
          => last_slot' = NoSlot]_vars
  /\ [][(dist = 2 /\ RunPoll /\ ~StopAtHead) =>
          /\ (pc' = "lockwait" <=> Key4h # last_slot)
          /\ (pc' = "lockwait" => cur_slot' = Key4h /\ res' = "NONE")
          /\ (pc' # "lockwait" => pc' = "running")]_vars
  /\ [][(dist = 2 /\ pc = "running" /\ pc' = "lockwait")
          => Key4h # last_slot /\ ~StopAtHead]_vars

C36_Witness ==
  /\ dist = 2 /\ pc = "lockwait"
  /\ last_slot # NoSlot /\ cur_slot # last_slot
  /\ runs[last_slot] = 1 /\ runs[cur_slot] = 1
  /\ cur_slot = Key4h

\* the hour slot of the wall clock: the day and the hour of the day
KeyHour == <<now \div 24, now % 24>>

\* C37: in the Dist_1 controller a cycle starts only at a poll whose hour of
\* the day is a multiple of CHECK_INTERVAL_HOUR (the hour is all the test
\* reads of the time of day), in an hour slot other than last_slot; and the
\* step on which a cycle returns, with OK, FAIL or STOP, sets last_slot to the
\* slot of that cycle, where it stays until the next cycle starts
C37_CycleOnIntervalHour ==
  /\ [][(dist = 1 /\ pc = "running" /\ pc' = "lockwait") =>
          /\ (now % 24) % D1_CHECK_INTERVAL_HOUR = 0
          /\ KeyHour # last_slot
          /\ cur_slot' = KeyHour]_vars
  /\ [][(dist = 1 /\ res = "NONE" /\ res' # "NONE") =>
          /\ res' \in {"OK", "FAIL", "STOP"}
          /\ last_slot' = cur_slot]_vars
  /\ [](dist = 1 /\ res # "NONE" => last_slot = cur_slot)

C37_Witness ==
  /\ dist = 1 /\ pc = "done" /\ res = "STOP"
  /\ last_slot = cur_slot /\ runs[cur_slot] = 1
  /\ cur_slot[2] % D1_CHECK_INTERVAL_HOUR = 0

\* the minute of the hour lies in a window of the running pump controller
\* (Dist_1: 0-4 and 30-34; Dist_2: 0-1, 20-21 and 40-41)
InWindow(m) ==
  IF tw_kind = "Dist_1" THEN m \in (0..4) \cup (30..34)
                        ELSE m \in (0..1) \cup (20..21) \cup (40..41)

\* the line the pump controller finds at its next read, if any
TwHead == IF tw_in = <<>> THEN "nothing" ELSE Head(tw_in)

\* C38: a time-window pump controller reads stdin once at start-up, taking at
\* most one line: with no line, a true line or any other text it commands the
\* pump OFF and ends, having logged nothing; only a false line enters the
\* loop. An iteration of the loop that finds a true line commands the pump
\* OFF and ends the loop; any other iteration commands the pump ON when the
\* minute it read lies in a window and OFF when not. Every On row is of a
\* window minute and no minute key has two rows.
C38_TimeWindowPump ==
  /\ [][(tw_pc = "start" /\ tw_pc' # "start") =>
          /\ tw_in' = (IF tw_in = <<>> THEN tw_in ELSE Tail(tw_in))
          /\ tw_rows' = <<>>
          /\ IF TwHead = "false"
               THEN tw_pc' = "loop" /\ tw_pump' = "NONE"
               ELSE tw_pc' = "done" /\ tw_pump' = "OFF"]_vars
  /\ [][(tw_pc = "loop" /\ (tw_pc' = "done" \/ tw_t' # tw_t)) =>
          IF TwHead = "true"
            THEN tw_pc' = "done" /\ tw_pump' = "OFF" /\ tw_rows' = tw_rows
            ELSE /\ tw_pc' = "loop"
                 /\ tw_pump' = (IF InWindow((tw_t \div 12) % 60)
                                  THEN "ON" ELSE "OFF")
                 /\ tw_t' >= tw_t + 1]_vars
  /\ [](tw_pc = "done" => tw_pump = "OFF")
  /\ [](tw_pc = "loop" /\ tw_now # NoVal =>
          (tw_pump = "ON" <=> InWindow((tw_now \div 12) % 60)))
  /\ [](\A j \in 1..Len(tw_rows) :
          /\ InWindow(tw_rows[j][2])
          /\ \A h \in 1..Len(tw_rows) : tw_rows[h] = tw_rows[j] => h = j)

\* a loop that logged two window minutes or more, ran on past the window with
\* the pump switched OFF and was then ended by a true line
C38_Witness ==
  /\ tw_pc = "done" /\ first_input = "False" /\ tw_pump = "OFF"
  /\ Len(tw_rows) >= 2
  /\ tw_now >= 0 /\ ~InWindow((tw_now \div 12) % 60)
  /\ tw_now > (tw_rows[Len(tw_rows)][1] * 60 + tw_rows[Len(tw_rows)][2] + 1) * 12
====
